---- MODULE Spec2Model ----
(***************************************************************************)
(* The in-memory soundboard store (class MemStorage of server/storage.ts): *)
(* sound clips, trigger words, the settings singleton with the default-    *)
(* response pool, the two round-robin cursors, and profile export/import.  *)
(* Every action is one public method of MemStorage run to completion (the  *)
(* methods are async but contain no await before their last statement,     *)
(* except importProfile, whose awaited callees resolve without yielding to *)
(* another request handler's store code only at microtask boundaries).     *)
(***************************************************************************)
EXTENDS Integers, Sequences, FiniteSets, TLC

VARIABLES
    soundClips,           \* Map<number, SoundClip>: id -> [name, isDefault]
    triggerWords,         \* Map<number, TriggerWord>: id -> [phrase, soundClipIds, currentIndex, caseSensitive, enabled]
    settings,             \* the Settings singleton
    currentSoundClipId,   \* next clip id to assign
    currentTriggerWordId, \* next trigger id to assign
    unreadable,           \* ids of live clips whose audio file under uploads/ cannot be read
    last,                 \* the last completed call: [op, arg, ret]
    issued,               \* history: the largest clip / trigger id assigned since construction
                          \* and since the last clearAllData
    client,               \* a caller running export -> import -> export: [pc, ok, d1, d2]
    log,                  \* history: the cursors SpecCycle starts from and what each of
                          \* its cycler calls read, returned and stored
    archive,              \* the files of server-profiles/: sanitized name -> file
    saved,                \* history: sanitized name -> what the last successful
                          \* saveProfileToServer to it was given
    requests,             \* requests in flight together: the store when they arrived and,
                          \* per caller, [pc, op, arg, pos, ret]
    voice                 \* the useVoiceRecognition hook of one page and the browser's
                          \* speech-recognition sessions it started

vars == <<soundClips, triggerWords, settings, currentSoundClipId,
          currentTriggerWordId, unreadable, last, issued, client, log, archive, saved,
          requests, voice>>

store == <<soundClips, triggerWords, settings, currentSoundClipId,
           currentTriggerWordId, unreadable>>

(***************************************************************************)
(* Bounds of the model.                                                    *)
(***************************************************************************)
MaxClips == 2       \* createSoundClip is explored while the id counter is <= MaxClips
MaxTriggers == 2    \* createTriggerWord is explored while the id counter is <= MaxTriggers
MaxLen == 2         \* longest soundClipIds list passed to create/updateTriggerWord
MaxPool == 3        \* SpecProfile explores calls that leave at most MaxPool pool entries
CycleLen == 3       \* longest list SpecCycle rotates through
CycleIds == 2       \* the clip ids SpecCycle's lists are made of are 1..CycleIds
NameLen == 1        \* longest profile name given to the server-profile routes
MaxTime == 2        \* clock readings a save stamps are 1..MaxTime
NCallers == 2       \* requests that can be in flight together

(***************************************************************************)
(* JavaScript values.                                                      *)
(***************************************************************************)
Null == 0           \* the null a getNext method returns for "no selection"
Undefined == -1     \* array[i] for i outside the array

None == <<>>        \* an absent (undefined) optional field
Some(x) == <<x>>
IsSome(o) == Len(o) = 1
Get(o) == o[1]
OrElse(o, d) == IF IsSome(o) THEN o[1] ELSE d      \* o ?? d

Min(a, b) == IF a <= b THEN a ELSE b

Includes(seq, x) == \E i \in 1..Len(seq) : seq[i] = x          \* Array.includes
Without(seq, x) == SelectSeq(seq, LAMBDA y : y # x)            \* filter(y => y !== x)
At(seq, i) == IF i >= 0 /\ i < Len(seq) THEN seq[i + 1] ELSE Undefined   \* seq[i], 0-based
Range(seq) == {seq[i] : i \in 1..Len(seq)}

SeqsUpTo(S, n) == UNION {[1..k -> S] : k \in 0..n}

(***************************************************************************)
(* Map helpers.                                                            *)
(***************************************************************************)
MapSet(m, k, v) == [x \in DOMAIN m \cup {k} |-> IF x = k THEN v ELSE m[x]]
MapDelete(m, k) == [x \in DOMAIN m \ {k} |-> m[x]]
EmptyMap == [x \in {} |-> 0]

InitSettings ==
    [defaultResponseEnabled |-> TRUE,
     defaultResponseSoundClipIds |-> <<>>,
     defaultResponseIndex |-> 0]

NoCall == [op |-> "none", arg |-> 0, ret |-> Null]
Call(op, arg, ret) == [op |-> op, arg |-> arg, ret |-> ret]

NoDoc == [soundClips |-> <<>>, triggerWords |-> <<>>, settings |-> <<>>]
IdleClient == [pc |-> "idle", ok |-> FALSE, d1 |-> NoDoc, d2 |-> NoDoc]

NoLog == [start |-> [trigger |-> 0, default |-> 0], trigger |-> <<>>, default |-> <<>>]

Callers == 1..NCallers
NoRequest == [pc |-> "idle", op |-> "none", arg |-> 0, pos |-> 0, ret |-> 0]
NoRequests == [pre |-> 0, of |-> [c \in Callers |-> NoRequest]]

\* the hook before startListening: isListening is the React state; captured is the
\* isListening constant the handlers of the last startListening close over; ref is
\* recognitionRef.current, naming the instance that startListening created ("original"),
\* the one its onend handler created ("replacement"), or null ("none"); original and
\* replacement are those sessions' states; timers are the pending setTimeout callbacks
NoVoice ==
    [isListening |-> FALSE, captured |-> FALSE, ref |-> "none",
     original |-> "none", replacement |-> "none", timers |-> {},
     wordCount |-> 0, error |-> FALSE]

NothingIssued == [clip |-> 0, trig |-> 0, clipSinceClear |-> 0, trigSinceClear |-> 0]

Init ==
    /\ soundClips = EmptyMap
    /\ triggerWords = EmptyMap
    /\ settings = InitSettings
    /\ currentSoundClipId = 1
    /\ currentTriggerWordId = 1
    /\ unreadable = {}
    /\ last = NoCall
    /\ issued = NothingIssued
    /\ client = IdleClient
    /\ log = NoLog
    /\ archive = EmptyMap
    /\ saved = EmptyMap
    /\ requests = NoRequests
    /\ voice = NoVoice

(***************************************************************************)
(* createSoundClip                                                         *)
(***************************************************************************)
\* mutant: the counter is read but not advanced
Succ_Stuck(id) == id

\* this.currentSoundClipId++ / this.currentTriggerWordId++ : the counter after the call
Succ(id) == id + 1

\* mutant: the new id joins the pool whatever defaultResponseEnabled says
PoolAfterCreate_Always(s, id) ==
    [s EXCEPT !.defaultResponseSoundClipIds = Append(@, id)]

PoolAfterCreate(s, id) ==
    IF s.defaultResponseEnabled
    THEN [s EXCEPT !.defaultResponseSoundClipIds = Append(@, id)]
    ELSE s

NewClip(name) == [name |-> name, isDefault |-> TRUE]

createSoundClip(name) ==
    /\ currentSoundClipId <= MaxClips
    /\ LET id == currentSoundClipId IN
        /\ currentSoundClipId' = Succ(id)
        /\ soundClips' = MapSet(soundClips, id, NewClip(name))
        /\ settings' = PoolAfterCreate(settings, id)
        /\ last' = Call("createSoundClip", id, id)
    /\ UNCHANGED <<triggerWords, currentTriggerWordId, unreadable>>

(***************************************************************************)
(* The default-status reconciliation loops of createTriggerWord,           *)
(* updateTriggerWord and deleteTriggerWord.  Each works on the pair        *)
(* [clips, pool] = (this.soundClips, settings.defaultResponseSoundClipIds).*)
(***************************************************************************)
\* one iteration of "mark assigned": storage.ts 146-152 / 180-186
\* mutant: the clip is flagged but stays in the pool
AssignOne_FlagOnly(st, clipId) ==
    IF clipId \in DOMAIN st.clips
    THEN [clips |-> [st.clips EXCEPT ![clipId].isDefault = FALSE], pool |-> st.pool]
    ELSE st

AssignOne(st, clipId) ==
    IF clipId \in DOMAIN st.clips
    THEN [clips |-> [st.clips EXCEPT ![clipId].isDefault = FALSE],
          pool |-> Without(st.pool, clipId)]
    ELSE st

RECURSIVE MarkAssigned_All(_, _, _)
\* mutant: the ids the trigger already had are marked as well
MarkAssigned_All(st, ids, old) ==
    IF ids = <<>> THEN st
    ELSE MarkAssigned_All(AssignOne(st, Head(ids)), Tail(ids), old)

RECURSIVE MarkAssigned(_, _, _)
\* for (const clipId of ids) if (!old.includes(clipId)) AssignOne
MarkAssigned(st, ids, old) ==
    IF ids = <<>> THEN st
    ELSE MarkAssigned(IF Includes(old, Head(ids)) THEN st ELSE AssignOne(st, Head(ids)),
                      Tail(ids), old)

\* mutant: the other triggers are not consulted
isUsedElsewhere_Never(trigs, id, clipId) == FALSE

\* Array.from(this.triggerWords.values()).some(t => t.id !== id && t.soundClipIds.includes(clipId))
isUsedElsewhere(trigs, id, clipId) ==
    \E t \in DOMAIN trigs : t # id /\ Includes(trigs[t].soundClipIds, clipId)

\* mutant: the clip is flagged default again but never put back into the pool
PushIfMissing_Dropped(pool, clipId) == pool

\* if (!includes(clipId)) push(clipId)
PushIfMissing(pool, clipId) ==
    IF Includes(pool, clipId) THEN pool ELSE Append(pool, clipId)

\* one iteration of "return to default": storage.ts 194-208 / 222-236
RestoreOne(st, trigs, id, clipId) ==
    IF ~isUsedElsewhere(trigs, id, clipId) /\ clipId \in DOMAIN st.clips
    THEN [clips |-> [st.clips EXCEPT ![clipId].isDefault = TRUE],
          pool |-> PushIfMissing(st.pool, clipId)]
    ELSE st

RECURSIVE RestoreRemoved(_, _, _, _, _)
\* for (const clipId of ids) if (!kept.includes(clipId)) RestoreOne
RestoreRemoved(st, ids, kept, trigs, id) ==
    IF ids = <<>> THEN st
    ELSE RestoreRemoved(IF Includes(kept, Head(ids)) THEN st
                        ELSE RestoreOne(st, trigs, id, Head(ids)),
                        Tail(ids), kept, trigs, id)

Reconciled == [clips |-> soundClips, pool |-> settings.defaultResponseSoundClipIds]

(***************************************************************************)
(* deleteSoundClip                                                         *)
(***************************************************************************)
\* mutant: the cursor is kept as it was
ClampIndex_None(currentIndex, len) == currentIndex

ClampIndex(currentIndex, len) == Min(currentIndex, len - 1)

TriggerAfterClipDelete(t, id) ==
    LET updatedIds == Without(t.soundClipIds, id) IN
    IF Len(updatedIds) # Len(t.soundClipIds)
    THEN [t EXCEPT !.soundClipIds = updatedIds,
                   !.currentIndex = ClampIndex(t.currentIndex, Len(updatedIds))]
    ELSE t

\* mutant: a trigger whose list becomes empty is kept with the empty list
TriggersAfterClipDelete_KeepEmpty(trigs, id) ==
    [t \in DOMAIN trigs |-> TriggerAfterClipDelete(trigs[t], id)]

TriggersAfterClipDelete(trigs, id) ==
    LET keep == {t \in DOMAIN trigs : Len(Without(trigs[t].soundClipIds, id)) # 0}
    IN  [t \in keep |-> TriggerAfterClipDelete(trigs[t], id)]

\* mutant: the pool is not filtered
PoolAfterClipDelete_Kept(pool, id) == pool

PoolAfterClipDelete(pool, id) ==
    IF Includes(pool, id) THEN Without(pool, id) ELSE pool

\* the DELETE /api/sound-clips/:id route answers 404 for an id that is not live
deleteSoundClip(id) ==
    /\ id \in DOMAIN soundClips
    /\ soundClips' = MapDelete(soundClips, id)
    /\ triggerWords' = TriggersAfterClipDelete(triggerWords, id)
    /\ settings' = [settings EXCEPT !.defaultResponseSoundClipIds = PoolAfterClipDelete(@, id)]
    /\ unreadable' = unreadable \ {id}
    /\ last' = Call("deleteSoundClip", id, Null)
    /\ UNCHANGED <<currentSoundClipId, currentTriggerWordId>>

(***************************************************************************)
(* createTriggerWord                                                       *)
(***************************************************************************)
NewTrigger(in) ==
    [phrase |-> in.phrase,
     soundClipIds |-> in.soundClipIds,
     currentIndex |-> 0,
     caseSensitive |-> in.caseSensitive,
     enabled |-> OrElse(in.enabled, TRUE)]

createTriggerWord(in) ==
    /\ currentTriggerWordId <= MaxTriggers
    /\ LET id == currentTriggerWordId
           st == MarkAssigned(Reconciled, in.soundClipIds, <<>>)
       IN
        /\ currentTriggerWordId' = Succ(id)
        /\ triggerWords' = MapSet(triggerWords, id, NewTrigger(in))
        /\ soundClips' = st.clips
        /\ settings' = [settings EXCEPT !.defaultResponseSoundClipIds = st.pool]
        /\ last' = Call("createTriggerWord", id, id)
    /\ UNCHANGED <<currentSoundClipId, unreadable>>

(***************************************************************************)
(* updateTriggerWord                                                       *)
(***************************************************************************)
UpdatedIndex(existing, newSoundClipIds) == existing.currentIndex

\* mutant: an update that carries no soundClipIds empties the list and rewinds the cursor
UpdatedTrigger_Fresh(existing, updates) ==
    [phrase |-> OrElse(updates.phrase, existing.phrase),
     soundClipIds |-> OrElse(updates.soundClipIds, <<>>),
     currentIndex |-> 0,
     caseSensitive |-> OrElse(updates.caseSensitive, existing.caseSensitive),
     enabled |-> OrElse(updates.enabled, existing.enabled)]

UpdatedTrigger(existing, updates) ==
    LET newSoundClipIds == OrElse(updates.soundClipIds, existing.soundClipIds) IN
    [phrase |-> OrElse(updates.phrase, existing.phrase),
     soundClipIds |-> newSoundClipIds,
     currentIndex |-> UpdatedIndex(existing, newSoundClipIds),
     caseSensitive |-> OrElse(updates.caseSensitive, existing.caseSensitive),
     enabled |-> OrElse(updates.enabled, existing.enabled)]

ReconcileUpdate(st, trigs, id, oldIds, newIds) ==
    RestoreRemoved(MarkAssigned(st, newIds, oldIds), oldIds, newIds, trigs, id)

updateTriggerWord(id, updates) ==
    /\ id \in DOMAIN triggerWords
    /\ LET existing == triggerWords[id]
           updated == UpdatedTrigger(existing, updates)
           trigs == MapSet(triggerWords, id, updated)
           st == IF IsSome(updates.soundClipIds)
                 THEN ReconcileUpdate(Reconciled, trigs, id,
                                      existing.soundClipIds, updated.soundClipIds)
                 ELSE Reconciled
       IN
        /\ triggerWords' = trigs
        /\ soundClips' = st.clips
        /\ settings' = [settings EXCEPT !.defaultResponseSoundClipIds = st.pool]
        /\ last' = Call("updateTriggerWord", id, id)
    /\ UNCHANGED <<currentSoundClipId, currentTriggerWordId, unreadable>>

(***************************************************************************)
(* deleteTriggerWord                                                       *)
(***************************************************************************)
deleteTriggerWord(id) ==
    /\ id \in DOMAIN triggerWords
    /\ LET st == RestoreRemoved(Reconciled, triggerWords[id].soundClipIds, <<>>,
                                triggerWords, id)
       IN
        /\ soundClips' = st.clips
        /\ settings' = [settings EXCEPT !.defaultResponseSoundClipIds = st.pool]
        /\ triggerWords' = MapDelete(triggerWords, id)
        /\ last' = Call("deleteTriggerWord", id, Null)
    /\ UNCHANGED <<currentSoundClipId, currentTriggerWordId, unreadable>>

(***************************************************************************)
(* The round-robin cyclers.                                                *)
(***************************************************************************)
\* mutant: the cursor is read but not advanced
NextIndex_Stuck(currentIndex, len) == currentIndex

\* mutant: the cursor does not wrap
NextIndex_NoWrap(currentIndex, len) == currentIndex + 1

NextIndex(currentIndex, len) == (currentIndex + 1) % len

getNextSoundClipForTrigger(triggerId) ==
    /\ IF triggerId \notin DOMAIN triggerWords
          \/ Len(triggerWords[triggerId].soundClipIds) = 0
       THEN /\ last' = Call("getNextSoundClipForTrigger", triggerId, Null)
            /\ UNCHANGED triggerWords
       ELSE LET t == triggerWords[triggerId] IN
            /\ last' = Call("getNextSoundClipForTrigger", triggerId,
                            At(t.soundClipIds, t.currentIndex))
            /\ triggerWords' = [triggerWords EXCEPT ![triggerId].currentIndex =
                                    NextIndex(t.currentIndex, Len(t.soundClipIds))]
    /\ UNCHANGED <<soundClips, settings, currentSoundClipId, currentTriggerWordId,
                   unreadable>>

getNextDefaultResponse ==
    /\ IF ~settings.defaultResponseEnabled
          \/ Len(settings.defaultResponseSoundClipIds) = 0
       THEN /\ last' = Call("getNextDefaultResponse", 0, Null)
            /\ UNCHANGED settings
       ELSE LET soundClipIds == settings.defaultResponseSoundClipIds
                currentIndex == settings.defaultResponseIndex
            IN
            /\ last' = Call("getNextDefaultResponse", 0, At(soundClipIds, currentIndex))
            /\ settings' = [settings EXCEPT !.defaultResponseIndex =
                                NextIndex(currentIndex, Len(soundClipIds))]
    /\ UNCHANGED <<soundClips, triggerWords, currentSoundClipId, currentTriggerWordId,
                   unreadable>>

(***************************************************************************)
(* updateSettings: this.settings = { ...this.settings, ...updates }        *)
(***************************************************************************)
\* mutant: any settings write puts the cursor back to 0
MergeSettings_ResetIndex(s, updates) ==
    [defaultResponseEnabled |-> OrElse(updates.defaultResponseEnabled, s.defaultResponseEnabled),
     defaultResponseSoundClipIds |->
         OrElse(updates.defaultResponseSoundClipIds, s.defaultResponseSoundClipIds),
     defaultResponseIndex |-> 0]

MergeSettings(s, updates) ==
    [defaultResponseEnabled |-> OrElse(updates.defaultResponseEnabled, s.defaultResponseEnabled),
     defaultResponseSoundClipIds |->
         OrElse(updates.defaultResponseSoundClipIds, s.defaultResponseSoundClipIds),
     defaultResponseIndex |-> OrElse(updates.defaultResponseIndex, s.defaultResponseIndex)]

updateSettings(updates) ==
    /\ settings' = MergeSettings(settings, updates)
    /\ last' = Call("updateSettings", 0, Null)
    /\ UNCHANGED <<soundClips, triggerWords, currentSoundClipId, currentTriggerWordId,
                   unreadable>>

(***************************************************************************)
(* clearAllData                                                            *)
(***************************************************************************)
\* mutant: the trigger map is not cleared
Cleared_KeepTriggers ==
    [clips |-> EmptyMap, trigs |-> triggerWords, settings |-> InitSettings,
     nextClip |-> 1, nextTrig |-> 1]

\* the in-memory data after storage.ts 436-449
Cleared ==
    [clips |-> EmptyMap, trigs |-> EmptyMap, settings |-> InitSettings,
     nextClip |-> 1, nextTrig |-> 1]

\* the store's variables take the values of the record st
Becomes(st) ==
    /\ soundClips' = st.clips
    /\ triggerWords' = st.trigs
    /\ settings' = st.settings
    /\ currentSoundClipId' = st.nextClip
    /\ currentTriggerWordId' = st.nextTrig

clearAllData ==
    /\ Becomes(Cleared)
    /\ unreadable' = {}
    /\ last' = Call("clearAllData", 0, Null)

(***************************************************************************)
(* exportProfile.  A document is                                           *)
(*   [soundClips : Seq([name, audio]),                                     *)
(*    triggerWords : Seq([phrase, soundClipNames, soundClipName,           *)
(*                        caseSensitive, enabled]),                        *)
(*    settings : optional [defaultResponseEnabled,                         *)
(*                         defaultResponseSoundClipNames]]                 *)
(* audio says whether audioData is a base64 string that can be written;    *)
(* soundClipName is the singular field importProfile reads, which an       *)
(* exported document does not have.  Maps iterate in insertion order,      *)
(* which is ascending id order.                                            *)
(***************************************************************************)
RECURSIVE SortedIds(_)
SortedIds(S) ==
    IF S = {} THEN <<>>
    ELSE LET m == CHOOSE x \in S : \A y \in S : x <= y
         IN  <<m>> \o SortedIds(S \ {m})

RECURSIVE NamesOf(_, _)
\* for (const clipId of ids) { const c = soundClips.find(...); if (c) push(c.name) }
NamesOf(clips, ids) ==
    IF ids = <<>> THEN <<>>
    ELSE (IF Head(ids) \in DOMAIN clips THEN <<clips[Head(ids)].name>> ELSE <<>>)
         \o NamesOf(clips, Tail(ids))

RECURSIVE ExportClips(_)
\* a clip whose audio file cannot be read is skipped (storage.ts 305-307)
ExportClips(ids) ==
    IF ids = <<>> THEN <<>>
    ELSE (IF Head(ids) \in unreadable THEN <<>>
          ELSE <<[name |-> soundClips[Head(ids)].name, audio |-> TRUE]>>)
         \o ExportClips(Tail(ids))

RECURSIVE ExportTriggers(_)
ExportTriggers(ids) ==
    IF ids = <<>> THEN <<>>
    ELSE LET t == triggerWords[Head(ids)]
             soundClipNames == NamesOf(soundClips, t.soundClipIds)
         IN  (IF Len(soundClipNames) > 0
              THEN <<[phrase |-> t.phrase,
                      soundClipNames |-> soundClipNames,
                      soundClipName |-> None,
                      caseSensitive |-> t.caseSensitive,
                      enabled |-> t.enabled]>>
              ELSE <<>>)
             \o ExportTriggers(Tail(ids))

ExportSettings ==
    [defaultResponseEnabled |-> settings.defaultResponseEnabled,
     defaultResponseSoundClipNames |->
         NamesOf(soundClips, settings.defaultResponseSoundClipIds)]

exportProfile ==
    [soundClips |-> ExportClips(SortedIds(DOMAIN soundClips)),
     triggerWords |-> ExportTriggers(SortedIds(DOMAIN triggerWords)),
     settings |-> Some(ExportSettings)]

(***************************************************************************)
(* importProfile: clearAllData, then one createSoundClip per clip, one     *)
(* createTriggerWord per trigger whose clip name resolves, then            *)
(* updateSettings.  The state threaded through its loops is                *)
(*   [clips, trigs, settings, nextClip, nextTrig, nameToId].               *)
(***************************************************************************)
\* soundClipNameToId.get(name): the id, or Null for undefined
Lookup(nameToId, name) == IF name \in DOMAIN nameToId THEN nameToId[name] ELSE Null

\* storage.ts 361-382: write the file, createSoundClip, remember name -> id
ImportClip(st, profileClip) ==
    IF ~profileClip.audio THEN st
    ELSE LET id == st.nextClip IN
         [st EXCEPT !.nextClip = Succ(id),
                    !.clips = MapSet(@, id, NewClip(profileClip.name)),
                    !.settings = PoolAfterCreate(@, id),
                    !.nameToId = MapSet(@, profileClip.name, id)]

RECURSIVE ImportClips(_, _)
ImportClips(st, profileClips) ==
    IF profileClips = <<>> THEN st
    ELSE ImportClips(ImportClip(st, Head(profileClips)), Tail(profileClips))

\* the clip ids importProfile passes to createTriggerWord for one document trigger:
\* soundClipNameToId.get(profileTrigger.soundClipName), storage.ts 387-392
ImportedClipIds(nameToId, profileTrigger) ==
    IF IsSome(profileTrigger.soundClipName)
       /\ Lookup(nameToId, Get(profileTrigger.soundClipName)) # Null
    THEN <<Lookup(nameToId, Get(profileTrigger.soundClipName))>>
    ELSE <<>>

\* storage.ts 386-400
ImportTrigger(st, profileTrigger) ==
    LET ids == ImportedClipIds(st.nameToId, profileTrigger) IN
    IF ids = <<>> THEN st
    ELSE LET id == st.nextTrig
             in == [phrase |-> profileTrigger.phrase, soundClipIds |-> ids,
                    caseSensitive |-> profileTrigger.caseSensitive,
                    enabled |-> Some(profileTrigger.enabled)]
             rec == MarkAssigned([clips |-> st.clips,
                                  pool |-> st.settings.defaultResponseSoundClipIds],
                                 ids, <<>>)
         IN  [st EXCEPT !.nextTrig = Succ(id),
                        !.trigs = MapSet(@, id, NewTrigger(in)),
                        !.clips = rec.clips,
                        !.settings.defaultResponseSoundClipIds = rec.pool]

RECURSIVE ImportTriggers(_, _)
ImportTriggers(st, profileTriggers) ==
    IF profileTriggers = <<>> THEN st
    ELSE ImportTriggers(ImportTrigger(st, Head(profileTriggers)), Tail(profileTriggers))

\* mutant: no name resolves
ResolveNames_None(nameToId, names) == <<>>

RECURSIVE ResolveNames(_, _)
\* storage.ts 404-410
ResolveNames(nameToId, names) ==
    IF names = <<>> THEN <<>>
    ELSE (IF Lookup(nameToId, Head(names)) # Null
          THEN <<Lookup(nameToId, Head(names))>> ELSE <<>>)
         \o ResolveNames(nameToId, Tail(names))

\* storage.ts 403-418
ImportSettings(st, profileSettings) ==
    IF ~IsSome(profileSettings) THEN st
    ELSE [st EXCEPT !.settings = MergeSettings(@,
              [defaultResponseEnabled |-> Some(Get(profileSettings).defaultResponseEnabled),
               defaultResponseSoundClipIds |->
                   Some(ResolveNames(st.nameToId,
                                     Get(profileSettings).defaultResponseSoundClipNames)),
               defaultResponseIndex |-> Some(0)])]

Imported(profileData) ==
    ImportSettings(
        ImportTriggers(
            ImportClips([clips |-> Cleared.clips, trigs |-> Cleared.trigs,
                         settings |-> Cleared.settings, nextClip |-> Cleared.nextClip,
                         nextTrig |-> Cleared.nextTrig, nameToId |-> EmptyMap],
                        profileData.soundClips),
            profileData.triggerWords),
        profileData.settings)

importProfile(profileData) ==
    /\ Becomes(Imported(profileData))
    /\ unreadable' = {}
    /\ last' = Call("importProfile", profileData, Null)

(***************************************************************************)
(* Inputs the HTTP layer lets through (insertTriggerWordSchema and         *)
(* insertSettingsSchema accept any integer array, the empty one included). *)
(***************************************************************************)
ClipIds == 1..MaxClips
TriggerIds == 1..MaxTriggers
IdLists == SeqsUpTo(ClipIds, MaxLen)
Opt(S) == {None} \cup {Some(x) : x \in S}

TriggerInputs ==
    [phrase : {"go"}, soundClipIds : IdLists, caseSensitive : {FALSE},
     enabled : {None}]

TriggerUpdates ==
    [phrase : {None}, soundClipIds : Opt(IdLists), caseSensitive : {None},
     enabled : {None}]

SettingsUpdates ==
    [defaultResponseEnabled : Opt(BOOLEAN),
     defaultResponseSoundClipIds : {None},
     defaultResponseIndex : {None}]

\* a store call leaves the history and the round-trip caller alone
Idle == UNCHANGED <<issued, client, log, archive, saved, requests, voice>>

(***************************************************************************)
(* Spec: every store call, in any order.                                   *)
(***************************************************************************)
Next ==
    \/ \E name \in {"a"} : createSoundClip(name) /\ Idle
    \/ \E id \in ClipIds : deleteSoundClip(id) /\ Idle
    \/ \E in \in TriggerInputs : createTriggerWord(in) /\ Idle
    \/ \E id \in TriggerIds, updates \in TriggerUpdates :
          updateTriggerWord(id, updates) /\ Idle
    \/ \E id \in TriggerIds : deleteTriggerWord(id) /\ Idle
    \/ \E id \in TriggerIds : getNextSoundClipForTrigger(id) /\ Idle
    \/ getNextDefaultResponse /\ Idle
    \/ \E updates \in SettingsUpdates : updateSettings(updates) /\ Idle
    \/ clearAllData /\ Idle

Spec == Init /\ [][Next]_vars

(***************************************************************************)
(* SpecCrud: only the five clip / trigger mutations, so settings are       *)
(* written by the store's own reconciliation alone and                     *)
(* defaultResponseEnabled keeps its constructor value true.  Triggers may  *)
(* be created disabled and toggled.                                        *)
(***************************************************************************)
CrudTriggerInputs ==
    [phrase : {"go"}, soundClipIds : IdLists, caseSensitive : {FALSE},
     enabled : {None, Some(FALSE)}]

CrudTriggerUpdates ==
    TriggerUpdates
    \cup [phrase : {None}, soundClipIds : {None}, caseSensitive : {None},
          enabled : {Some(TRUE), Some(FALSE)}]

NextCrud ==
    \/ \E name \in {"a"} : createSoundClip(name) /\ Idle
    \/ \E id \in ClipIds : deleteSoundClip(id) /\ Idle
    \/ \E in \in CrudTriggerInputs : createTriggerWord(in) /\ Idle
    \/ \E id \in TriggerIds, updates \in CrudTriggerUpdates :
          updateTriggerWord(id, updates) /\ Idle
    \/ \E id \in TriggerIds : deleteTriggerWord(id) /\ Idle

SpecCrud == Init /\ [][NextCrud]_vars

(***************************************************************************)
(* SpecProfile: the store with named clips, profile import from uploaded   *)
(* documents, clearAllData, and a caller that exports, imports what it     *)
(* exported and exports again with nothing in between.  The history        *)
(* variable issued is left alone here.                                     *)
(***************************************************************************)
ClipNames == {"a", "b"}
Phrases == {"go", "stop"}

Max(a, b) == IF a >= b THEN a ELSE b
MaxOf(S) == IF S = {} THEN 0 ELSE CHOOSE x \in S : \A y \in S : y <= x

\* the ids the step assigned, read off the call and the maps after it
AssignedClipIds ==
    IF last'.op = "createSoundClip" THEN {last'.ret}
    ELSE IF last'.op = "importProfile" THEN DOMAIN soundClips'
    ELSE {}

AssignedTriggerIds ==
    IF last'.op = "createTriggerWord" THEN {last'.ret}
    ELSE IF last'.op = "importProfile" THEN DOMAIN triggerWords'
    ELSE {}

ClearingStep == last'.op \in {"clearAllData", "importProfile"}

Track ==
    issued' = [clip |-> Max(issued.clip, MaxOf(AssignedClipIds)),
               trig |-> Max(issued.trig, MaxOf(AssignedTriggerIds)),
               clipSinceClear |-> Max(IF ClearingStep THEN 0 ELSE issued.clipSinceClear,
                                      MaxOf(AssignedClipIds)),
               trigSinceClear |-> Max(IF ClearingStep THEN 0 ELSE issued.trigSinceClear,
                                      MaxOf(AssignedTriggerIds))]

\* importing a document with duplicate clip names can repeat an id in the pool, and
\* each later clip is appended to it: the pool has no bound of its own
PoolBounded == Len(settings'.defaultResponseSoundClipIds) <= MaxPool

\* a store call made while the round-trip caller is not in the middle of its three calls
Apart == client.pc = "idle" /\ UNCHANGED <<client, issued, log, archive, saved, requests, voice>> /\ PoolBounded

\* uploaded documents: clips with writable audio, possibly after one clip without;
\* at most one trigger, which names clip "a" in soundClipNames and may carry the
\* singular soundClipName; settings absent or naming clips that may not resolve
AudioClips(n) == SeqsUpTo([name : ClipNames, audio : {TRUE}], n)
DocClips ==
    AudioClips(MaxClips)
    \cup {<<[name |-> "a", audio |-> FALSE]>> \o c : c \in AudioClips(MaxClips - 1)}
DocTriggers ==
    SeqsUpTo([phrase : {"stop"}, soundClipNames : {<<"a">>},
              soundClipName : Opt({"a"}), caseSensitive : {FALSE},
              enabled : {TRUE}], 1)
DocSettings ==
    {None, Some([defaultResponseEnabled |-> TRUE,
                 defaultResponseSoundClipNames |-> <<"b", "a">>]),
           Some([defaultResponseEnabled |-> FALSE,
                 defaultResponseSoundClipNames |-> <<"a">>])}
Docs == [soundClips : DocClips, triggerWords : DocTriggers, settings : DocSettings]

ProfileTriggerInputs ==
    [phrase : Phrases, soundClipIds : SeqsUpTo(ClipIds, 1), caseSensitive : {FALSE},
     enabled : {None}]

DistinctNames ==
    \A i, j \in DOMAIN soundClips : soundClips[i].name = soundClips[j].name => i = j

ClientExport1 ==
    /\ client.pc = "idle"
    /\ client' = [pc |-> "exported", ok |-> (DistinctNames /\ unreadable = {}),
                  d1 |-> exportProfile, d2 |-> NoDoc]
    /\ last' = Call("exportProfile", 0, Null)
    /\ UNCHANGED <<store, issued, log, archive, saved, requests, voice>>

ClientImport ==
    /\ client.pc = "exported"
    /\ importProfile(client.d1)
    /\ client' = [client EXCEPT !.pc = "imported"]
    /\ UNCHANGED <<issued, log, archive, saved, requests, voice>>

ClientExport2 ==
    /\ client.pc = "imported"
    /\ client' = [client EXCEPT !.pc = "done", !.d2 = exportProfile]
    /\ last' = Call("exportProfile", 0, Null)
    /\ UNCHANGED <<store, issued, log, archive, saved, requests, voice>>

ClientReturn ==
    /\ client.pc = "done"
    /\ client' = IdleClient
    /\ UNCHANGED <<store, last, issued, log, archive, saved, requests, voice>>

NextProfile ==
    \/ \E name \in ClipNames : createSoundClip(name) /\ Apart
    \/ \E id \in ClipIds : deleteSoundClip(id) /\ Apart
    \/ \E in \in ProfileTriggerInputs : createTriggerWord(in) /\ Apart
    \/ \E id \in TriggerIds : getNextSoundClipForTrigger(id) /\ Apart
    \/ getNextDefaultResponse /\ Apart
    \/ \E profileData \in Docs : importProfile(profileData) /\ Apart
    \/ clearAllData /\ Apart
    \/ ClientExport1
    \/ ClientImport
    \/ ClientExport2
    \/ ClientReturn

SpecProfile == Init /\ [][NextProfile]_vars

(***************************************************************************)
(* SpecIds: the calls that assign or retire ids, with the history of the   *)
(* ids assigned kept in issued.                                            *)
(***************************************************************************)
Tracked == Track /\ UNCHANGED <<client, log, archive, saved, requests, voice>>

IdTriggerInputs ==
    [phrase : {"go"}, soundClipIds : SeqsUpTo(ClipIds, 1), caseSensitive : {FALSE},
     enabled : {None}]

IdDocs ==
    [soundClips : AudioClips(MaxClips),
     triggerWords : SeqsUpTo([phrase : {"stop"}, soundClipNames : {<<"a">>},
                              soundClipName : {Some("a")}, caseSensitive : {FALSE},
                              enabled : {TRUE}], MaxTriggers),
     settings : {None}]

NextIds ==
    \/ \E name \in {"a"} : createSoundClip(name) /\ Tracked
    \/ \E id \in ClipIds : deleteSoundClip(id) /\ Tracked
    \/ \E in \in IdTriggerInputs : createTriggerWord(in) /\ Tracked
    \/ \E id \in TriggerIds : deleteTriggerWord(id) /\ Tracked
    \/ \E profileData \in IdDocs : importProfile(profileData) /\ Tracked
    \/ clearAllData /\ Tracked

SpecIds == Init /\ [][NextIds]_vars

(***************************************************************************)
(* SpecCycle: the two cyclers called again and again on a store that is    *)
(* otherwise left alone, apart from switching the default response on and  *)
(* off.  The store starts with clips 1..CycleIds, one trigger whose list   *)
(* is any non-empty list of them with any valid cursor, and the same list  *)
(* written as the default pool (PATCH /api/settings takes any id list)     *)
(* with a valid cursor of its own.                                         *)
(***************************************************************************)
MaxCalls == CycleLen + 1

CycleLists == SeqsUpTo(1..CycleIds, CycleLen) \ {<<>>}

InitCycle ==
    /\ settings \in [defaultResponseEnabled : BOOLEAN,
                     defaultResponseSoundClipIds : CycleLists,
                     defaultResponseIndex : 0..(CycleLen - 1)]
    /\ settings.defaultResponseIndex < Len(settings.defaultResponseSoundClipIds)
    /\ triggerWords \in
          {[t \in {1} |-> [phrase |-> "go",
                           soundClipIds |-> settings.defaultResponseSoundClipIds,
                           currentIndex |-> c, caseSensitive |-> FALSE, enabled |-> TRUE]] :
              c \in 0..(Len(settings.defaultResponseSoundClipIds) - 1)}
    /\ soundClips = [id \in 1..CycleIds |->
                        [name |-> "a",
                         isDefault |-> ~Includes(triggerWords[1].soundClipIds, id)]]
    /\ currentSoundClipId = CycleIds + 1
    /\ currentTriggerWordId = 2
    /\ unreadable = {}
    /\ last = NoCall
    /\ issued = NothingIssued
    /\ client = IdleClient
    /\ archive = EmptyMap
    /\ saved = EmptyMap
    /\ requests = NoRequests
    /\ voice = NoVoice
    /\ log = [start |-> [trigger |-> triggerWords[1].currentIndex,
                         default |-> settings.defaultResponseIndex],
              trigger |-> <<>>, default |-> <<>>]

CycleTrigger ==
    /\ Len(log.trigger) < MaxCalls
    /\ getNextSoundClipForTrigger(1)
    /\ log' = [log EXCEPT !.trigger =
                  Append(@, [pos |-> triggerWords[1].currentIndex,
                             val |-> last'.ret,
                             after |-> triggerWords'[1].currentIndex])]
    /\ UNCHANGED <<issued, client, archive, saved, requests, voice>>

CycleDefault ==
    /\ Len(log.default) < MaxCalls
    /\ getNextDefaultResponse
    /\ log' = [log EXCEPT !.default =
                  Append(@, [enabled |-> settings.defaultResponseEnabled,
                             pos |-> settings.defaultResponseIndex,
                             val |-> last'.ret,
                             after |-> settings'.defaultResponseIndex])]
    /\ UNCHANGED <<issued, client, archive, saved, requests, voice>>

SwitchDefault ==
    \E enabled \in BOOLEAN :
        /\ updateSettings([defaultResponseEnabled |-> Some(enabled),
                           defaultResponseSoundClipIds |-> None,
                           defaultResponseIndex |-> None])
        /\ Idle

NextCycle ==
    \/ CycleTrigger
    \/ CycleDefault
    \/ SwitchDefault

SpecCycle == InitCycle /\ [][NextCycle]_vars

(***************************************************************************)
(* The server-profile archive: the directory server-profiles/, one file    *)
(* per sanitized name.  A file either parses as JSON, and then holds a     *)
(* document with (or, for a file put there by hand, without) the readOnly  *)
(* and savedAt fields, or it does not parse; mentions says whether the     *)
(* message of the error JSON.parse throws for it contains 'read-only'      *)
(* (V8 quotes the offending text in the message).                          *)
(* A profile name is a sequence of characters.                             *)
(***************************************************************************)
SizeLimit == 10 * 1024 * 1024

Chars == {"a", "/", "_"}
AllowedChars == {"a", "_", ".", "-"}      \* of [a-zA-Z0-9._-]

\* filename.replace(/[^a-zA-Z0-9._-]/g, '_') (+ '.json')
Sanitize(filename) ==
    [i \in DOMAIN filename |-> IF filename[i] \in AllowedChars THEN filename[i] ELSE "_"]

\* mutant: the file is written without the two added fields
JsonFile_NoEnvelope(doc, readOnly, savedAt) ==
    [json |-> TRUE, doc |-> doc, readOnly |-> None, savedAt |-> None, mentions |-> FALSE]

JsonFile(doc, readOnly, savedAt) ==
    [json |-> TRUE, doc |-> doc, readOnly |-> readOnly, savedAt |-> savedAt,
     mentions |-> FALSE]

TextFile(mentions) ==
    [json |-> FALSE, doc |-> NoDoc, readOnly |-> None, savedAt |-> None,
     mentions |-> mentions]

\* JSON.parse(fs.readFileSync(filePath, 'utf8')) of a file that parses
Parsed(file) == [doc |-> file.doc, readOnly |-> file.readOnly, savedAt |-> file.savedAt]

Ok(value) == [error |-> "none", value |-> value]
Failed(error) == [error |-> error, value |-> Null]

\* mutant: the read-only check is left out
StoredReadOnly_Ignored(files, key) == FALSE

\* existingProfile.readOnly is truthy
StoredReadOnly(files, key) == files[key].readOnly = Some(TRUE)

\* mutant: the cap is tested with >=
TooLarge_Inclusive(bytes) == bytes >= SizeLimit

\* sizeInBytes / (1024 * 1024) > 10
TooLarge(bytes) == bytes > SizeLimit

\* the outcome of saveProfileToServer: what it throws, if anything, and the files after
saveProfileToServer(profileData, bytes, filename, readOnly, at) ==
    LET key == Sanitize(filename) IN
    IF TooLarge(bytes) THEN [error |-> "size", files |-> archive]
    ELSE IF key \in DOMAIN archive /\ ~archive[key].json
         THEN [error |-> "parse", files |-> archive]
    ELSE IF key \in DOMAIN archive /\ StoredReadOnly(archive, key)
         THEN [error |-> "conflict", files |-> archive]
    ELSE [error |-> "none",
          files |-> MapSet(archive, key, JsonFile(profileData, Some(readOnly), Some(at)))]

\* the outcome of loadProfileFromServer
loadProfileFromServer(filename) ==
    LET key == Sanitize(filename) IN
    IF key \notin DOMAIN archive THEN Failed("notfound")
    ELSE IF ~archive[key].json THEN Failed("parse")
    ELSE Ok(Parsed(archive[key]))

\* mutant: the file is removed whatever it holds
deleteServerProfile_Always(filename) ==
    [error |-> "none", files |-> MapDelete(archive, Sanitize(filename))]

\* the outcome of deleteServerProfile
deleteServerProfile(filename) ==
    LET key == Sanitize(filename) IN
    IF key \notin DOMAIN archive THEN [error |-> "none", files |-> archive]
    ELSE IF archive[key].json /\ StoredReadOnly(archive, key)
         THEN [error |-> "readonly", files |-> archive]
    ELSE IF ~archive[key].json /\ archive[key].mentions
         THEN [error |-> "parse", files |-> archive]
    ELSE [error |-> "none", files |-> MapDelete(archive, key)]

\* mutant: the route saves whatever was exported
NoClips_Skipped(profile) == FALSE

\* !profile.soundClips || profile.soundClips.length === 0
NoClips(profile) == Len(profile.soundClips) = 0

\* the file of a live clip disappears from uploads/ (removed outside the program, or
\* already unlinked by a request that is then answered)
LoseAudio(id) ==
    /\ id \in DOMAIN soundClips \ unreadable
    /\ unreadable' = unreadable \cup {id}
    /\ UNCHANGED <<soundClips, triggerWords, settings, currentSoundClipId,
                   currentTriggerWordId, last>>

\* POST /api/profile/save-to-server; bytes is the length of the serialized export,
\* which depends on the audio data
SaveToServer(filename, readOnly, bytes, at) ==
    LET profile == exportProfile IN
    IF NoClips(profile)
    THEN /\ last' = Call("saveToServer", [filename |-> filename, bytes |-> bytes],
                         Failed("noclips"))
         /\ UNCHANGED <<store, archive, saved>>
    ELSE LET out == saveProfileToServer(profile, bytes, filename, readOnly, at) IN
         /\ archive' = out.files
         /\ saved' = IF out.error = "none"
                     THEN MapSet(saved, Sanitize(filename),
                                 [doc |-> profile, readOnly |-> readOnly, at |-> at])
                     ELSE saved
         /\ last' = Call("saveToServer", [filename |-> filename, bytes |-> bytes],
                         Failed(out.error))
         /\ UNCHANGED store

\* GET /api/profile/load-from-server/:filename
LoadFromServer(filename) ==
    LET out == loadProfileFromServer(filename) IN
    /\ IF out.error = "none"
       THEN Becomes(Imported(out.value.doc)) /\ unreadable' = {}
       ELSE UNCHANGED store
    /\ last' = Call("loadFromServer", filename, out)
    /\ UNCHANGED <<archive, saved>>

\* DELETE /api/profile/server-profiles/:filename
DeleteFromServer(filename) ==
    LET out == deleteServerProfile(filename) IN
    /\ archive' = out.files
    /\ saved' = IF out.error = "none" THEN MapDelete(saved, Sanitize(filename)) ELSE saved
    /\ last' = Call("deleteFromServer", filename, Failed(out.error))
    /\ UNCHANGED store

(***************************************************************************)
(* SpecArchive: the three server-profile routes over a store that clips    *)
(* are added to and that is cleared.  The directory outlives the process,  *)
(* so the store may start next to a file of any kind left there.           *)
(***************************************************************************)
FileNames == SeqsUpTo(Chars, NameLen) \ {<<>>}
Keys == {Sanitize(filename) : filename \in FileNames}
Sizes == {SizeLimit - 1, SizeLimit, SizeLimit + 1}
Times == 1..MaxTime

HandDoc == [soundClips |-> <<[name |-> "b", audio |-> TRUE]>>, triggerWords |-> <<>>,
            settings |-> None]

FoundFiles == {TextFile(FALSE), TextFile(TRUE), JsonFile(HandDoc, None, None)}

InitArchive ==
    /\ soundClips = EmptyMap
    /\ triggerWords = EmptyMap
    /\ settings = InitSettings
    /\ currentSoundClipId = 1
    /\ currentTriggerWordId = 1
    /\ unreadable = {}
    /\ last = NoCall
    /\ issued = NothingIssued
    /\ client = IdleClient
    /\ log = NoLog
    /\ archive \in {EmptyMap} \cup {MapSet(EmptyMap, key, file) : key \in Keys, file \in FoundFiles}
    /\ saved = EmptyMap
    /\ requests = NoRequests
    /\ voice = NoVoice

Filed == UNCHANGED <<issued, client, log, requests, voice>>

NextArchive ==
    \/ \E name \in {"a"} : createSoundClip(name) /\ Idle
    \/ clearAllData /\ Idle
    \/ \E filename \in FileNames, readOnly \in BOOLEAN, bytes \in Sizes, at \in Times :
          SaveToServer(filename, readOnly, bytes, at) /\ Filed
    \/ \E filename \in FileNames : LoadFromServer(filename) /\ Filed
    \/ \E filename \in FileNames : DeleteFromServer(filename) /\ Filed

SpecArchive == InitArchive /\ [][NextArchive]_vars

(***************************************************************************)
(* SpecSave: the save-to-server route over a store whose clips come and go *)
(* and whose audio files may go missing, from an empty directory.          *)
(***************************************************************************)
NextSave ==
    \/ \E name \in {"a"} : createSoundClip(name) /\ Idle
    \/ \E id \in ClipIds : deleteSoundClip(id) /\ Idle
    \/ \E id \in ClipIds : LoseAudio(id) /\ Idle
    \/ \E filename \in FileNames, readOnly \in BOOLEAN, bytes \in Sizes, at \in Times :
          SaveToServer(filename, readOnly, bytes, at) /\ Filed

SpecSave == Init /\ [][NextSave]_vars

(***************************************************************************)
(* SpecConcurrent: NCallers HTTP requests in flight together.  Node runs   *)
(* one handler at a time and a handler gives way only at an await; the     *)
(* handlers below call one MemStorage method whose body has no await, so   *)
(* the whole method is one step (Run), in whatever order the event loop    *)
(* takes the queued requests, and the response is sent in a later step.    *)
(* The store starts with clips 1..MaxClips, all default and in the pool.   *)
(***************************************************************************)
Snapshot ==
    [clips |-> soundClips, trigs |-> triggerWords, settings |-> settings,
     nextTrig |-> currentTriggerWordId]

ConcurrentCalls ==
    {[op |-> "createTriggerWord",
      arg |-> [phrase |-> "go", soundClipIds |-> ids, caseSensitive |-> FALSE,
               enabled |-> None]] : ids \in IdLists}
    \cup {[op |-> "getNextSoundClipForTrigger", arg |-> id] : id \in TriggerIds}
    \cup {[op |-> "getNextDefaultResponse", arg |-> 0]}

InitConcurrent ==
    /\ soundClips = [id \in 1..MaxClips |-> NewClip("a")]
    /\ triggerWords = EmptyMap
    /\ settings = [InitSettings EXCEPT
                      !.defaultResponseSoundClipIds = SortedIds(1..MaxClips)]
    /\ currentSoundClipId = MaxClips + 1
    /\ currentTriggerWordId = 1
    /\ unreadable = {}
    /\ last = NoCall
    /\ issued = NothingIssued
    /\ client = IdleClient
    /\ log = NoLog
    /\ archive = EmptyMap
    /\ saved = EmptyMap
    /\ requests = NoRequests
    /\ voice = NoVoice

Aside == UNCHANGED <<issued, client, log, archive, saved, voice>>

\* the requests of all callers arrive before any of them is handled
Arrive ==
    /\ \A c \in Callers : requests.of[c].pc = "idle"
    /\ \E calls \in [Callers -> ConcurrentCalls] :
          /\ Cardinality({c \in Callers : calls[c].op = "createTriggerWord"})
                <= MaxTriggers + 1 - currentTriggerWordId
          /\ requests' = [pre |-> Snapshot,
                          of |-> [c \in Callers |->
                                     [pc |-> "queued", op |-> calls[c].op,
                                      arg |-> calls[c].arg, pos |-> 0, ret |-> 0]]]
    /\ UNCHANGED <<store, last>>
    /\ Aside

\* the cursor the call of a queued request will read
CursorOf(request) ==
    IF request.op = "getNextSoundClipForTrigger"
    THEN (IF request.arg \in DOMAIN triggerWords
          THEN triggerWords[request.arg].currentIndex ELSE 0)
    ELSE IF request.op = "getNextDefaultResponse" THEN settings.defaultResponseIndex
    ELSE 0

Run(c) ==
    LET request == requests.of[c] IN
    /\ request.pc = "queued"
    /\ CASE request.op = "createTriggerWord" -> createTriggerWord(request.arg)
         [] request.op = "getNextSoundClipForTrigger" ->
                getNextSoundClipForTrigger(request.arg)
         [] request.op = "getNextDefaultResponse" -> getNextDefaultResponse
    /\ requests' = [requests EXCEPT !.of[c] =
                       [request EXCEPT !.pc = "done", !.pos = CursorOf(request),
                                       !.ret = last'.ret]]
    /\ Aside

\* every response has been sent
Settle ==
    /\ \A c \in Callers : requests.of[c].pc = "done"
    /\ requests' = NoRequests
    /\ UNCHANGED <<store, last>>
    /\ Aside

NextConcurrent ==
    \/ Arrive
    \/ \E c \in Callers : Run(c)
    \/ Settle

SpecConcurrent == InitConcurrent /\ [][NextConcurrent]_vars

(***************************************************************************)
(* SpecVoice: the useVoiceRecognition hook.  startListening creates a      *)
(* SpeechRecognition instance and four handlers; the handlers are closures *)
(* over the constants isListening and recognition of that call.  The       *)
(* instance created by a restart gets the same four handler objects.  A    *)
(* session is "live" until the browser ends it, on its own or after        *)
(* stop(); the end runs onend.  Sessions and timers of an earlier          *)
(* startListening are left out once a later one has run: their handlers    *)
(* compare recognitionRef.current with an instance it never holds again.   *)
(* SpeechRecognition errors are left out; start() of a new instance may    *)
(* throw.                                                                  *)
(***************************************************************************)
WordLimit == 10
Utterances == {3, 10}      \* words in one final transcript

\* isListening && recognitionRef.current === recognition, as the handlers evaluate it
StillListening == voice.captured /\ voice.ref = "original"

\* startListening; granted says whether getUserMedia resolves.  The hook does not
\* refuse a call made while it is listening; handleToggleListening of the page calls
\* it from a render in which isListening is false, the case captured |-> FALSE
startListening(granted) ==
    /\ voice' = IF granted
                THEN [isListening |-> TRUE, captured |-> voice.isListening,
                      ref |-> "original", original |-> "live",
                      replacement |-> "none", timers |-> {}, wordCount |-> 0,
                      error |-> FALSE]
                ELSE [voice EXCEPT !.isListening = FALSE, !.error = TRUE]

Stopped(state) == IF state = "live" THEN "stopping" ELSE state

stopListening ==
    /\ voice' = [voice EXCEPT
                    !.original = IF voice.ref = "original" THEN Stopped(@) ELSE @,
                    !.replacement = IF voice.ref = "replacement" THEN Stopped(@) ELSE @,
                    !.ref = "none", !.isListening = FALSE, !.error = FALSE]

\* recognition.onresult with a final transcript of words words
onresult(words) ==
    /\ voice.original = "live" \/ voice.replacement = "live"
    /\ voice' = IF voice.wordCount + words >= WordLimit
                THEN [voice EXCEPT !.wordCount = 0, !.timers = @ \cup {"force"}]
                ELSE [voice EXCEPT !.wordCount = @ + words]

\* the setTimeout callback of onresult: recognition.stop()
ForceTimer ==
    /\ "force" \in voice.timers
    /\ voice' = [voice EXCEPT !.timers = @ \ {"force"},
                              !.original = IF StillListening THEN Stopped(@) ELSE @]

\* the browser ends a session and recognition.onend runs
onend(session) ==
    /\ voice[session] \in {"live", "stopping"}
    /\ voice' = [voice EXCEPT ![session] = "ended",
                              !.timers = IF StillListening THEN @ \cup {"restart"} ELSE @]

\* a session on which stop() was called does end
StoppingEnds == \E session \in {"original", "replacement"} :
    voice[session] = "stopping" /\ onend(session)

Restarted ==
    [voice EXCEPT !.replacement = "live", !.ref = "replacement", !.wordCount = 0]

\* the setTimeout callback of onend; throws says whether newRecognition.start() throws
RestartTimer(throws) ==
    /\ "restart" \in voice.timers
    /\ voice' = IF ~StillListening THEN [voice EXCEPT !.timers = @ \ {"restart"}]
                ELSE IF throws
                THEN [voice EXCEPT !.timers = (@ \ {"restart"}) \cup {"fallback"}]
                ELSE [Restarted EXCEPT !.timers = @ \ {"restart"}]

\* the fallback setTimeout callback
FallbackTimer(throws) ==
    /\ "fallback" \in voice.timers
    /\ voice' = IF ~StillListening THEN [voice EXCEPT !.timers = @ \ {"fallback"}]
                ELSE IF throws
                THEN [voice EXCEPT !.timers = @ \ {"fallback"},
                                   !.isListening = FALSE, !.error = TRUE]
                ELSE [Restarted EXCEPT !.timers = @ \ {"fallback"}]

Server == UNCHANGED <<store, last, issued, client, log, archive, saved, requests>>

NextVoice ==
    \/ \E granted \in BOOLEAN : startListening(granted) /\ Server
    \/ stopListening /\ Server
    \/ \E words \in Utterances : onresult(words) /\ Server
    \/ ForceTimer /\ Server
    \/ \E session \in {"original", "replacement"} : onend(session) /\ Server
    \/ \E throws \in BOOLEAN : RestartTimer(throws) /\ Server
    \/ \E throws \in BOOLEAN : FallbackTimer(throws) /\ Server

\* timers fire, and a stopped session ends; the user and the browser's own session
\* ends are under no obligation
SpecVoice ==
    /\ Init /\ [][NextVoice]_vars
    /\ WF_vars(ForceTimer /\ Server)
    /\ WF_vars(StoppingEnds /\ Server)
    /\ WF_vars(\E throws \in BOOLEAN : RestartTimer(throws) /\ Server)
    /\ WF_vars(\E throws \in BOOLEAN : FallbackTimer(throws) /\ Server)

(***************************************************************************)
(* SpecAssign: the clip / trigger mutations together with PATCH            *)
(* /api/settings, which may write any id list as the pool (ids of no clip  *)
(* and repeated ids included) and switch default responses on and off.     *)
(* Triggers may be created disabled and toggled.                           *)
(***************************************************************************)
PoolWrites ==
    [defaultResponseEnabled : Opt(BOOLEAN),
     defaultResponseSoundClipIds : Opt(IdLists),
     defaultResponseIndex : {None}]

NextAssign ==
    \/ \E name \in {"a"} : createSoundClip(name) /\ Idle
    \/ \E id \in ClipIds : deleteSoundClip(id) /\ Idle
    \/ \E in \in CrudTriggerInputs : createTriggerWord(in) /\ Idle
    \/ \E id \in TriggerIds, updates \in CrudTriggerUpdates :
          updateTriggerWord(id, updates) /\ Idle
    \/ \E id \in TriggerIds : deleteTriggerWord(id) /\ Idle
    \/ \E updates \in PoolWrites : updateSettings(updates) /\ Idle

SpecAssign == Init /\ [][NextAssign]_vars

(***************************************************************************)
(* SpecToggle: triggers are created, rotated by getNextSoundClipForTrigger *)
(* and updated, with and without soundClipIds in the update.               *)
(***************************************************************************)
NextToggle ==
    \/ \E name \in {"a"} : createSoundClip(name) /\ Idle
    \/ \E in \in CrudTriggerInputs : createTriggerWord(in) /\ Idle
    \/ \E id \in TriggerIds, updates \in CrudTriggerUpdates :
          updateTriggerWord(id, updates) /\ Idle
    \/ \E id \in TriggerIds : getNextSoundClipForTrigger(id) /\ Idle

SpecToggle == Init /\ [][NextToggle]_vars

(***************************************************************************)
(* SpecLive: every store mutation, importProfile and clearAllData          *)
(* included, where createTriggerWord and updateTriggerWord are only given  *)
(* ids of clips that are live at the call and the settings route only      *)
(* switches default responses on and off.                                  *)
(***************************************************************************)
LiveIds(ids) == Range(ids) \subseteq DOMAIN soundClips

NextLive ==
    \/ \E name \in {"a"} : createSoundClip(name) /\ Idle
    \/ \E id \in ClipIds : deleteSoundClip(id) /\ Idle
    \/ \E in \in TriggerInputs : LiveIds(in.soundClipIds) /\ createTriggerWord(in) /\ Idle
    \/ \E id \in TriggerIds, updates \in TriggerUpdates :
          /\ LiveIds(OrElse(updates.soundClipIds, <<>>))
          /\ updateTriggerWord(id, updates) /\ Idle
    \/ \E id \in TriggerIds : deleteTriggerWord(id) /\ Idle
    \/ \E updates \in SettingsUpdates : updateSettings(updates) /\ Idle
    \/ \E profileData \in Docs : importProfile(profileData) /\ Idle
    \/ clearAllData /\ Idle

SpecLive == Init /\ [][NextLive]_vars

(***************************************************************************)
(* SpecNonEmpty: every store mutation where createTriggerWord, and         *)
(* updateTriggerWord when it carries soundClipIds, are given a list of at  *)
(* least one id (triggerFormSchema: soundClipIds min(1)); the ids may be   *)
(* of clips that are not live.                                             *)
(***************************************************************************)
NonEmpty(ids) == Len(ids) >= 1

NextNonEmpty ==
    \/ \E name \in {"a"} : createSoundClip(name) /\ Idle
    \/ \E id \in ClipIds : deleteSoundClip(id) /\ Idle
    \/ \E in \in TriggerInputs : NonEmpty(in.soundClipIds) /\ createTriggerWord(in) /\ Idle
    \/ \E id \in TriggerIds, updates \in TriggerUpdates :
          /\ IsSome(updates.soundClipIds) => NonEmpty(Get(updates.soundClipIds))
          /\ updateTriggerWord(id, updates) /\ Idle
    \/ \E id \in TriggerIds : deleteTriggerWord(id) /\ Idle
    \/ \E profileData \in Docs : importProfile(profileData) /\ Idle
    \/ clearAllData /\ Idle

SpecNonEmpty == Init /\ [][NextNonEmpty]_vars

(***************************************************************************)
(* SpecExport: GET /api/profile/export over a store with clips, triggers   *)
(* and audio files that may go missing; the document returned is kept in   *)
(* client.d1.                                                              *)
(***************************************************************************)
ExportRoute ==
    /\ client' = [IdleClient EXCEPT !.d1 = exportProfile]
    /\ last' = Call("exportProfile", 0, Null)
    /\ UNCHANGED <<store, issued, log, archive, saved, requests, voice>>

NextExport ==
    \/ \E name \in ClipNames : createSoundClip(name) /\ Idle
    \/ \E id \in ClipIds : deleteSoundClip(id) /\ Idle
    \/ \E in \in ProfileTriggerInputs : createTriggerWord(in) /\ Idle
    \/ \E id \in ClipIds : LoseAudio(id) /\ Idle
    \/ ExportRoute

SpecExport == Init /\ [][NextExport]_vars

(***************************************************************************)
(* SpecImport: NCallers requests in flight together, importProfile among   *)
(* them.  importProfile gives way at each of its awaits: after             *)
(* clearAllData, after each createSoundClip, after each createTriggerWord  *)
(* and after updateSettings.  Every promise it awaits is already settled   *)
(* (the callees have no await and the files are written with               *)
(* fs.writeFileSync), so its continuation is a microtask; Node runs the    *)
(* handler of another request from the event queue only when no microtask  *)
(* is pending.  The steps of importProfile are separate steps here, its    *)
(* soundClipNameToId map is kept in the request's names field.             *)
(***************************************************************************)
ImportDocs ==
    {d \in Docs : /\ Len(d.soundClips) >= 1
                  /\ d.soundClips[1].name = "a"
                  /\ Len(d.triggerWords) = 1}

ImportCalls ==
    {[op |-> "importProfile", arg |-> d] : d \in ImportDocs}
    \cup {[op |-> "deleteSoundClip", arg |-> id] : id \in ClipIds}
    \cup {[op |-> "exportProfile", arg |-> 0], [op |-> "getNextDefaultResponse", arg |-> 0]}

\* the awaits of importProfile(profileData), its return included
ImportSteps(profileData) ==
    1 + Len(profileData.soundClips) + Len(profileData.triggerWords)
      + (IF IsSome(profileData.settings) THEN 1 ELSE 0)

\* the store as the loops of importProfile see it
Threaded(names) ==
    [clips |-> soundClips, trigs |-> triggerWords, settings |-> settings,
     nextClip |-> currentSoundClipId, nextTrig |-> currentTriggerWordId,
     nameToId |-> names]

\* what importProfile(profileData) does between its await number pos and the next
ImportStep(profileData, pos, names) ==
    LET clips == Len(profileData.soundClips)
        trigs == Len(profileData.triggerWords)
    IN  IF pos = 0
        THEN [clips |-> Cleared.clips, trigs |-> Cleared.trigs,
              settings |-> Cleared.settings, nextClip |-> Cleared.nextClip,
              nextTrig |-> Cleared.nextTrig, nameToId |-> EmptyMap]
        ELSE IF pos <= clips
        THEN ImportClip(Threaded(names), profileData.soundClips[pos])
        ELSE IF pos <= clips + trigs
        THEN ImportTrigger(Threaded(names), profileData.triggerWords[pos - clips])
        ELSE ImportSettings(Threaded(names), profileData.settings)

InFlight(c) == requests.of[c].pc = "running"

\* mutant: a queued handler is started between two microtasks
MayStart_Any(c) == requests.of[c].pc = "queued"

\* the event loop takes a request from the queue when no continuation is pending
MayStart(c) ==
    /\ requests.of[c].pc = "queued"
    /\ \A d \in Callers : ~InFlight(d)

ArriveImport ==
    /\ \A c \in Callers : requests.of[c].pc = "idle"
    /\ \E calls \in [Callers -> ImportCalls] :
          requests' = [pre |-> 0,
                       of |-> [c \in Callers |->
                                  [pc |-> "queued", op |-> calls[c].op,
                                   arg |-> calls[c].arg, pos |-> 0, ret |-> 0,
                                   names |-> EmptyMap]]]
    /\ UNCHANGED <<store, last>>
    /\ Aside

\* one stretch of importProfile, from the start or from an await to the next await
ImportRuns(c) ==
    LET request == requests.of[c]
        st == ImportStep(request.arg, request.pos, request.names)
    IN  /\ request.op = "importProfile"
        /\ Becomes(st)
        /\ unreadable' = IF request.pos = 0 THEN {} ELSE unreadable
        /\ last' = Call("importProfile", request.pos, Null)
        /\ requests' = [requests EXCEPT !.of[c] =
                           [request EXCEPT
                               !.pc = IF request.pos + 1 = ImportSteps(request.arg)
                                      THEN "done" ELSE "running",
                               !.pos = @ + 1,
                               !.names = st.nameToId]]
        /\ Aside

\* a handler whose store call has no await
CallRuns(c) ==
    LET request == requests.of[c] IN
    /\ CASE request.op = "deleteSoundClip" ->
                IF request.arg \in DOMAIN soundClips
                THEN deleteSoundClip(request.arg)
                ELSE /\ last' = Call("deleteSoundClip", request.arg, Null)
                     /\ UNCHANGED store
         [] request.op = "getNextDefaultResponse" -> getNextDefaultResponse
         [] request.op = "exportProfile" ->
                /\ last' = Call("exportProfile", 0, Null)
                /\ UNCHANGED store
         [] OTHER -> FALSE
    /\ requests' = [requests EXCEPT !.of[c] =
                       [request EXCEPT !.pc = "done",
                                       !.ret = IF request.op = "exportProfile"
                                               THEN exportProfile ELSE last'.ret]]
    /\ Aside

StartRequest(c) ==
    /\ MayStart(c)
    /\ ImportRuns(c) \/ CallRuns(c)

ResumeImport(c) ==
    /\ InFlight(c)
    /\ ImportRuns(c)

NextImport ==
    \/ ArriveImport
    \/ \E c \in Callers : StartRequest(c)
    \/ \E c \in Callers : ResumeImport(c)
    \/ Settle

SpecImport == InitConcurrent /\ [][NextImport]_vars

(***************************************************************************)
(* State functions the claims are stated with.                             *)
(***************************************************************************)
Pool == settings.defaultResponseSoundClipIds
Referenced(id) == \E t \in DOMAIN triggerWords : Includes(triggerWords[t].soundClipIds, id)
DefaultClips == {id \in DOMAIN soundClips : soundClips[id].isDefault}

TriggerIndexValid(t) ==
    Len(t.soundClipIds) > 0 => 0 <= t.currentIndex /\ t.currentIndex < Len(t.soundClipIds)

(***************************************************************************)
(* C1.  After every clip / trigger mutation each live clip has isDefault   *)
(* true if and only if no live trigger (enabled or not) lists its id.      *)
(* Stated as written; createTriggerWord accepts the id of a clip that does *)
(* not exist yet and createSoundClip then creates that clip as default.    *)
(***************************************************************************)
C1_DefaultIffUnreferenced ==
    \A id \in DOMAIN soundClips : soundClips[id].isDefault <=> ~Referenced(id)

(***************************************************************************)
(* C2.  While defaultResponseEnabled was never false and only clip and     *)
(* trigger create/update/delete ran, the distinct ids in the default pool  *)
(* are exactly the ids of the live clips flagged default.                  *)
(***************************************************************************)
C2_PoolIsDefaultSet == Range(Pool) = DefaultClips

\* a clip returned to the pool by the reconciler next to one still assigned
C2_Witness ==
    /\ last.op \in {"updateTriggerWord", "deleteTriggerWord"}
    /\ \E id \in DOMAIN soundClips : soundClips[id].isDefault /\ Includes(Pool, id)
    /\ \E id \in DOMAIN soundClips : ~soundClips[id].isDefault /\ ~Includes(Pool, id)

(***************************************************************************)
(* C3.  Every live trigger with a non-empty soundClipIds has               *)
(* 0 <= currentIndex < len(soundClipIds), and so                           *)
(* getNextSoundClipForTrigger returns an element of the list.  Stated as   *)
(* written; updateTriggerWord keeps the old currentIndex under a shorter   *)
(* list.                                                                   *)
(***************************************************************************)
C3_CurrentIndexValid ==
    /\ \A t \in DOMAIN triggerWords : TriggerIndexValid(triggerWords[t])
    /\ last.op = "getNextSoundClipForTrigger" => last.ret # Undefined

(***************************************************************************)
(* C4.  Whenever the default pool is non-empty                             *)
(* 0 <= defaultResponseIndex < len(pool), and so getNextDefaultResponse    *)
(* returns null or an element of the pool.  Stated as written; the pool    *)
(* shrinks in deleteSoundClip and in the reconciler without the cursor     *)
(* being clamped.                                                          *)
(***************************************************************************)
C4_DefaultIndexValid ==
    /\ Len(Pool) > 0 =>
          0 <= settings.defaultResponseIndex /\ settings.defaultResponseIndex < Len(Pool)
    /\ last.op = "getNextDefaultResponse" => last.ret # Undefined

(***************************************************************************)
(* C5.  Every id assigned by createSoundClip is strictly greater than      *)
(* every clip id assigned before it in the process, and likewise for       *)
(* createTriggerWord, clearAllData and importProfile included.  Stated as  *)
(* written; clearAllData resets both counters to 1.                        *)
(***************************************************************************)
C5_NeverReused ==
    [][/\ \A id \in AssignedClipIds : id > issued.clip
       /\ \A id \in AssignedTriggerIds : id > issued.trig]_vars

(***************************************************************************)
(* C5 as amended.  Every id a call assigns is strictly greater than every  *)
(* id of its kind assigned since the last clearAllData (importProfile      *)
(* begins with one) and below the counter the call leaves; clearAllData    *)
(* puts both counters back to 1.                                           *)
(***************************************************************************)
C5_IncreasingSinceClear ==
    [][/\ \A id \in AssignedClipIds :
             /\ id > (IF ClearingStep THEN 0 ELSE issued.clipSinceClear)
             /\ id < currentSoundClipId'
       /\ \A id \in AssignedTriggerIds :
             /\ id > (IF ClearingStep THEN 0 ELSE issued.trigSinceClear)
             /\ id < currentTriggerWordId'
       /\ last'.op = "clearAllData" =>
             currentSoundClipId' = 1 /\ currentTriggerWordId' = 1]_vars

\* a clip id assigned after a clear that is not above the ids assigned before it
C5_Witness ==
    /\ last.op = "createSoundClip"
    /\ issued.clipSinceClear >= 1
    /\ issued.clip > issued.clipSinceClear

(***************************************************************************)
(* C6.  For a store whose clips have distinct names and readable audio,    *)
(* exportProfile, importProfile of that document, exportProfile again      *)
(* gives a second document with the same clip names, the same trigger      *)
(* phrases each with the same soundClipNames, and the same                 *)
(* defaultResponseSoundClipNames.                                          *)
(***************************************************************************)
ClipNamesOf(doc) == [i \in DOMAIN doc.soundClips |-> doc.soundClips[i].name]

TopologyOf(doc) ==
    [i \in DOMAIN doc.triggerWords |->
        [phrase |-> doc.triggerWords[i].phrase,
         soundClipNames |-> doc.triggerWords[i].soundClipNames]]

DefaultNamesOf(doc) == Get(doc.settings).defaultResponseSoundClipNames

C6_RoundTrip ==
    (client.pc = "done" /\ client.ok) =>
        /\ ClipNamesOf(client.d2) = ClipNamesOf(client.d1)
        /\ TopologyOf(client.d2) = TopologyOf(client.d1)
        /\ DefaultNamesOf(client.d2) = DefaultNamesOf(client.d1)

(***************************************************************************)
(* C10.  After importProfile(D) the live clips are exactly the clips       *)
(* created from D.soundClips, numbered from 1 in document order; every     *)
(* live trigger was created from a trigger of D, numbered from 1, with     *)
(* cursor 0 and clips of the new store; the default pool holds only new    *)
(* clips (those D.settings names, when D has settings) and its cursor      *)
(* is 0.  Nothing of the store before the call is left.                    *)
(***************************************************************************)
Written(profileClips) == SelectSeq(profileClips, LAMBDA c : c.audio)

LiveNames == {soundClips[id].name : id \in DOMAIN soundClips}

C10_FullReplace ==
    last.op = "importProfile" =>
        LET D == last.arg
            created == Written(D.soundClips)
        IN  /\ DOMAIN soundClips = 1..Len(created)
            /\ \A id \in DOMAIN soundClips : soundClips[id].name = created[id].name
            /\ currentSoundClipId = Len(created) + 1
            /\ DOMAIN triggerWords = 1..(currentTriggerWordId - 1)
            /\ Cardinality(DOMAIN triggerWords) <= Len(D.triggerWords)
            /\ \A t \in DOMAIN triggerWords :
                  /\ \E i \in DOMAIN D.triggerWords :
                        triggerWords[t].phrase = D.triggerWords[i].phrase
                  /\ triggerWords[t].currentIndex = 0
                  /\ triggerWords[t].soundClipIds # <<>>
                  /\ Range(triggerWords[t].soundClipIds) \subseteq DOMAIN soundClips
            /\ Range(Pool) \subseteq DOMAIN soundClips
            /\ IsSome(D.settings) =>
                  NamesOf(soundClips, Pool) =
                      SelectSeq(Get(D.settings).defaultResponseSoundClipNames,
                                LAMBDA name : name \in LiveNames)
            /\ settings.defaultResponseIndex = 0
            /\ unreadable = {}

\* the import of a document exported from a store that had clips and triggers
C10_Witness ==
    /\ last.op = "importProfile"
    /\ client.pc = "imported"
    /\ Len(client.d1.soundClips) >= 1
    /\ Len(client.d1.triggerWords) >= 1
    /\ soundClips # EmptyMap

(***************************************************************************)
(* C7.  deleteSoundClip(id) removes every trigger whose list is empty once *)
(* id is filtered out; every trigger that keeps a clip holds the filtered  *)
(* list with currentIndex = min(old currentIndex, new length - 1); and a   *)
(* trigger that did not reference id keeps its list and currentIndex.      *)
(* Stated as written.                                                      *)
(***************************************************************************)
C7_DeleteCascade ==
    [][last'.op = "deleteSoundClip" =>
         \A t \in DOMAIN triggerWords :
            LET old == triggerWords[t]
                updatedIds == Without(old.soundClipIds, last'.arg)
            IN  /\ updatedIds = <<>> => t \notin DOMAIN triggerWords'
                /\ updatedIds # <<>> =>
                      /\ t \in DOMAIN triggerWords'
                      /\ triggerWords'[t].soundClipIds = updatedIds
                      /\ triggerWords'[t].currentIndex =
                            Min(old.currentIndex, Len(updatedIds) - 1)
                /\ ~Includes(old.soundClipIds, last'.arg) =>
                      /\ t \in DOMAIN triggerWords'
                      /\ triggerWords'[t].soundClipIds = old.soundClipIds
                      /\ triggerWords'[t].currentIndex = old.currentIndex]_vars

(***************************************************************************)
(* C7 as amended.  deleteSoundClip(id) removes every trigger whose list is *)
(* empty once id is filtered out, a list that was empty before included;   *)
(* a trigger that referenced id and keeps a clip holds the filtered list   *)
(* with currentIndex = min(old currentIndex, new length - 1); a trigger    *)
(* with a non-empty list that did not reference id is left as it was, its  *)
(* currentIndex not clamped; no trigger is added.                          *)
(***************************************************************************)
C7_DeleteCascadeReferenced ==
    [][last'.op = "deleteSoundClip" =>
         /\ DOMAIN triggerWords' \subseteq DOMAIN triggerWords
         /\ \A t \in DOMAIN triggerWords :
               LET old == triggerWords[t]
                   updatedIds == Without(old.soundClipIds, last'.arg)
               IN  /\ updatedIds = <<>> => t \notin DOMAIN triggerWords'
                   /\ (updatedIds # <<>> /\ Includes(old.soundClipIds, last'.arg)) =>
                         /\ t \in DOMAIN triggerWords'
                         /\ triggerWords'[t] =
                               [old EXCEPT !.soundClipIds = updatedIds,
                                           !.currentIndex =
                                               Min(old.currentIndex, Len(updatedIds) - 1)]
                   /\ (updatedIds # <<>> /\ ~Includes(old.soundClipIds, last'.arg)) =>
                         /\ t \in DOMAIN triggerWords'
                         /\ triggerWords'[t] = old]_vars

\* a deletion that left one trigger with a shortened list and took another away
C7_Witness ==
    /\ last.op = "deleteSoundClip"
    /\ currentTriggerWordId = 3
    /\ \E t \in DOMAIN triggerWords :
          /\ DOMAIN triggerWords = {t}
          /\ Len(triggerWords[t].soundClipIds) = 1
          /\ ~Includes(triggerWords[t].soundClipIds, last.arg)
          /\ \A id \in DOMAIN soundClips : ~soundClips[id].isDefault

(***************************************************************************)
(* C8.  With a list of n >= 1 ids and a valid cursor, the k-th call of a   *)
(* cycler reads position (start + k - 1) mod n, returns the id there and   *)
(* stores the next position mod n; n calls read every position once; the  *)
(* (n+1)-th call returns what the first returned.  For the default cycler  *)
(* the calls counted are those made while it is enabled.                   *)
(***************************************************************************)
RoundRobin(list, start, calls) ==
    LET n == Len(list) IN
    /\ \A k \in 1..Len(calls) :
          /\ calls[k].pos = (start + k - 1) % n
          /\ calls[k].val = At(list, calls[k].pos)
          /\ calls[k].after = (calls[k].pos + 1) % n
    /\ Len(calls) >= n =>
          /\ {calls[k].pos : k \in 1..n} = 0..(n - 1)
          /\ \A j, k \in 1..n : calls[j].pos = calls[k].pos => j = k
    /\ Len(calls) >= n + 1 =>
          /\ calls[n + 1].pos = calls[1].pos
          /\ calls[n + 1].val = calls[1].val

EnabledCalls == SelectSeq(log.default, LAMBDA call : call.enabled)

C8_RoundRobin ==
    /\ RoundRobin(triggerWords[1].soundClipIds, log.start.trigger, log.trigger)
    /\ RoundRobin(Pool, log.start.default, EnabledCalls)

\* both cyclers have gone once round a list of CycleLen ids, from a cursor past the
\* first position, and made one more call
C8_Witness ==
    /\ Len(Pool) = CycleLen
    /\ log.start.trigger > 0
    /\ log.start.default > 0
    /\ Len(log.trigger) = CycleLen + 1
    /\ Len(EnabledCalls) = CycleLen + 1

(***************************************************************************)
(* C9.  A getNextDefaultResponse call made while defaultResponseEnabled is *)
(* false returns null and leaves defaultResponseIndex as it was; every     *)
(* call reads the index the call before it left, whatever switching off    *)
(* and on happened in between, and an enabled call returns the pool        *)
(* element at that index.                                                  *)
(***************************************************************************)
C9_DisabledKeepsCursor ==
    /\ \A k \in 1..Len(log.default) :
          LET call == log.default[k] IN
          /\ ~call.enabled => call.val = Null /\ call.after = call.pos
          /\ call.enabled => call.val = At(Pool, call.pos)
          /\ call.pos = (IF k = 1 THEN log.start.default ELSE log.default[k - 1].after)
    /\ settings.defaultResponseIndex =
          (IF log.default = <<>> THEN log.start.default
           ELSE log.default[Len(log.default)].after)

\* an enabled call that moved the cursor off 0, a call while disabled, and an enabled
\* call after switching back on
C9_Witness ==
    /\ last.op = "getNextDefaultResponse"
    /\ \E k \in 1..(Len(log.default) - 2) :
          /\ log.default[k].enabled /\ log.default[k].after > 0
          /\ ~log.default[k + 1].enabled
          /\ log.default[k + 2].enabled
          /\ log.default[k + 2].val = At(Pool, log.default[k].after)

(***************************************************************************)
(* C11.  After importProfile(D), the live triggers are, in document order, *)
(* one per trigger entry of D whose soundClipNames all name clips of D,    *)
(* with that entry's phrase and the new ids of those names in order; an    *)
(* entry with a name that does not resolve gives no trigger.               *)
(***************************************************************************)
\* the id importProfile's name map holds for a name: the last clip created with it
IdOfName(name) ==
    CHOOSE id \in DOMAIN soundClips :
        /\ soundClips[id].name = name
        /\ \A other \in DOMAIN soundClips : soundClips[other].name = name => other <= id

IdsOfNames(names) == [i \in DOMAIN names |-> IdOfName(names[i])]

Resolving(profileTriggers) ==
    SelectSeq(profileTriggers,
              LAMBDA pt : \A i \in DOMAIN pt.soundClipNames : pt.soundClipNames[i] \in LiveNames)

C11_TriggersByNames ==
    last.op = "importProfile" =>
        LET entries == Resolving(last.arg.triggerWords) IN
        /\ DOMAIN triggerWords = 1..Len(entries)
        /\ \A t \in DOMAIN triggerWords :
              /\ triggerWords[t].phrase = entries[t].phrase
              /\ triggerWords[t].soundClipIds = IdsOfNames(entries[t].soundClipNames)

(***************************************************************************)
(* C12.  After importProfile(D) with D.settings present, the default pool  *)
(* is the new ids of the names of D.settings.defaultResponseSoundClipNames *)
(* that resolve, in document order, whatever clip creation had appended,   *)
(* and defaultResponseIndex is 0.                                          *)
(***************************************************************************)
C12_PoolFromNames ==
    (last.op = "importProfile" /\ IsSome(last.arg.settings)) =>
        LET names == Get(last.arg.settings).defaultResponseSoundClipNames
            resolved == SelectSeq(names, LAMBDA name : name \in LiveNames)
        IN  /\ Pool = IdsOfNames(resolved)
            /\ settings.defaultResponseIndex = 0
            /\ settings.defaultResponseEnabled =
                  Get(last.arg.settings).defaultResponseEnabled

\* two clips were created and appended to the pool; the document's settings name one
\* of them and a name no clip has
C12_Witness ==
    /\ last.op = "importProfile"
    /\ IsSome(last.arg.settings)
    /\ Len(Get(last.arg.settings).defaultResponseSoundClipNames) = 2
    /\ Cardinality(DOMAIN soundClips) = 2
    /\ Len(Pool) = 1

(***************************************************************************)
(* The server-profile claims are about the step a route call takes: key is *)
(* the sanitized name the call was given.                                  *)
(***************************************************************************)
SaveCalled == last'.op = "saveToServer" /\ last'.ret.error # "noclips"
SaveKey == Sanitize(last'.arg.filename)
HeldReadOnly(key) ==
    key \in DOMAIN archive /\ archive[key].json /\ archive[key].readOnly = Some(TRUE)

C14_SizeCap ==
    [][SaveCalled =>
          /\ last'.arg.bytes > 10485760 =>
                last'.ret.error = "size" /\ archive' = archive
          /\ last'.arg.bytes <= 10485760 =>
                /\ last'.ret.error # "size"
                /\ (SaveKey \notin DOMAIN archive
                      \/ (archive[SaveKey].json /\ ~HeldReadOnly(SaveKey))) =>
                      /\ last'.ret.error = "none"
                      /\ SaveKey \in DOMAIN archive'
                      /\ archive'[SaveKey].doc = exportProfile]_vars

\* a document of exactly the cap was written
C14_Witness ==
    /\ last.op = "saveToServer"
    /\ last.arg.bytes = 10485760
    /\ last.ret.error = "none"
    /\ Sanitize(last.arg.filename) \in DOMAIN saved

(***************************************************************************)
(* C15.  deleteServerProfile fails and keeps the file when the stored      *)
(* document has readOnly true; it removes the file when readOnly is false  *)
(* or absent, and when the file does not parse.                            *)
(***************************************************************************)
C15_DeleteUnlessReadOnly ==
    [][(last'.op = "deleteFromServer" /\ Sanitize(last'.arg) \in DOMAIN archive) =>
          LET key == Sanitize(last'.arg) IN
          IF HeldReadOnly(key)
          THEN last'.ret.error # "none" /\ archive' = archive
          ELSE last'.ret.error = "none" /\ key \notin DOMAIN archive']_vars

(***************************************************************************)
(* C16.  loadProfileFromServer fails with not-found when there is no file  *)
(* at the sanitized key, and the route then imports nothing: clips,        *)
(* triggers and settings stay as they are.  After a successful save of doc *)
(* under the key with nothing written to it since, the load returns doc    *)
(* with readOnly as the save asked and the savedAt stamp.                  *)
(***************************************************************************)
C16_LoadReturnsSaved ==
    [][last'.op = "loadFromServer" =>
          LET key == Sanitize(last'.arg) IN
          /\ key \notin DOMAIN archive =>
                /\ last'.ret.error = "notfound"
                /\ UNCHANGED <<soundClips, triggerWords, settings,
                               currentSoundClipId, currentTriggerWordId>>
          /\ key \in DOMAIN saved =>
                /\ last'.ret.error = "none"
                /\ last'.ret.value = [doc |-> saved[key].doc,
                                      readOnly |-> Some(saved[key].readOnly),
                                      savedAt |-> Some(saved[key].at)]]_vars

\* a read-only save was loaded back under another spelling of its name
C16_Witness ==
    /\ last.op = "loadFromServer"
    /\ last.ret.error = "none"
    /\ Sanitize(last.arg) \in DOMAIN saved
    /\ last.arg # Sanitize(last.arg)
    /\ last.ret.value.readOnly = Some(TRUE)
    /\ Len(last.ret.value.doc.soundClips) = 2

(***************************************************************************)
(* C19.  A save-to-server request made while the profile exported from the *)
(* store has no sound clip is rejected before saveProfileToServer is       *)
(* called: no file is created or changed.                                  *)
(***************************************************************************)
C19_NoEmptySave ==
    [][(last'.op = "saveToServer" /\ Len(exportProfile.soundClips) = 0) =>
          /\ last'.ret.error = "noclips"
          /\ archive' = archive]_vars

\* a request refused although the store has a clip: its audio file cannot be read
C19_Witness ==
    /\ last.op = "saveToServer"
    /\ last.ret.error = "noclips"
    /\ soundClips # EmptyMap
    /\ last.arg.bytes <= 10485760
    /\ Sanitize(last.arg.filename) \notin DOMAIN archive

(***************************************************************************)
(* C17.  When all requests in flight are getNext calls on the same trigger *)
(* (or all on the default pool) and the list has at least as many entries  *)
(* as there are callers, the calls handled so far read distinct,           *)
(* consecutive positions starting at the cursor the list had when they     *)
(* arrived, and each returned the id at its position.                      *)
(***************************************************************************)
Handled == {c \in Callers : requests.of[c].pc = "done"}

SameCall(op) ==
    /\ \A c \in Callers : requests.of[c].op = op
    /\ \A c, d \in Callers : requests.of[c].arg = requests.of[d].arg

Consecutive(list, start) ==
    /\ \A c, d \in Handled : requests.of[c].pos = requests.of[d].pos => c = d
    /\ {requests.of[c].pos : c \in Handled} =
          {(start + i) % Len(list) : i \in 0..(Cardinality(Handled) - 1)}
    /\ \A c \in Handled : requests.of[c].ret = At(list, requests.of[c].pos)

C17_AtomicGetNext ==
    /\ SameCall("getNextDefaultResponse") =>
          (Len(requests.pre.settings.defaultResponseSoundClipIds) >= NCallers =>
              Consecutive(requests.pre.settings.defaultResponseSoundClipIds,
                          requests.pre.settings.defaultResponseIndex))
    /\ SameCall("getNextSoundClipForTrigger") =>
          LET t == requests.of[1].arg IN
          (t \in DOMAIN requests.pre.trigs
             /\ Len(requests.pre.trigs[t].soundClipIds) >= NCallers) =>
              Consecutive(requests.pre.trigs[t].soundClipIds,
                          requests.pre.trigs[t].currentIndex)

\* all callers called getNext on one trigger whose cursor was past the first position,
\* and all were handled
C17_Witness ==
    /\ SameCall("getNextSoundClipForTrigger")
    /\ Handled = Callers
    /\ requests.of[1].arg \in DOMAIN requests.pre.trigs
    /\ Len(requests.pre.trigs[requests.of[1].arg].soundClipIds) = NCallers
    /\ requests.pre.trigs[requests.of[1].arg].currentIndex > 0

(***************************************************************************)
(* C18.  When all requests in flight are createTriggerWord calls, the      *)
(* store after any number of them were handled is the store they found     *)
(* with exactly those calls applied in full: one trigger per handled call, *)
(* under distinct new ids; every live clip one of them names is not        *)
(* default and not in the pool; every other clip and the rest of the pool  *)
(* are as they were.                                                       *)
(***************************************************************************)
NamedBy(cs) == UNION {Range(requests.of[c].arg.soundClipIds) : c \in cs}

C18_CreatesSerialized ==
    (\A c \in Callers : requests.of[c].op = "createTriggerWord") =>
        LET pre == requests.pre
            named == NamedBy(Handled)
        IN  /\ \A c, d \in Handled : requests.of[c].ret = requests.of[d].ret => c = d
            /\ DOMAIN triggerWords =
                  DOMAIN pre.trigs \cup {requests.of[c].ret : c \in Handled}
            /\ {requests.of[c].ret : c \in Handled} =
                  pre.nextTrig..(pre.nextTrig + Cardinality(Handled) - 1)
            /\ \A c \in Handled :
                  triggerWords[requests.of[c].ret] = NewTrigger(requests.of[c].arg)
            /\ \A t \in DOMAIN pre.trigs : triggerWords[t] = pre.trigs[t]
            /\ DOMAIN soundClips = DOMAIN pre.clips
            /\ \A id \in DOMAIN soundClips :
                  IF id \in named
                  THEN ~soundClips[id].isDefault /\ ~Includes(Pool, id)
                  ELSE soundClips[id] = pre.clips[id]
            /\ Pool = SelectSeq(pre.settings.defaultResponseSoundClipIds,
                                LAMBDA id : id \notin named)

\* two creations naming a common clip and one clip each of their own were both handled
C18_Witness ==
    /\ \A c \in Callers : requests.of[c].op = "createTriggerWord"
    /\ Handled = Callers
    /\ \E id \in DOMAIN soundClips :
          \A c \in Callers : Includes(requests.of[c].arg.soundClipIds, id)
    /\ \E c, d \in Callers :
          Range(requests.of[c].arg.soundClipIds) # Range(requests.of[d].arg.soundClipIds)

(***************************************************************************)
(* C20.  While the hook is listening (startListening has succeeded,        *)
(* stopListening has not been called, no failure has been reported),       *)
(* whenever the current recognition session has ended, a session is        *)
(* eventually live again as the current one.                               *)
(***************************************************************************)
CurrentIs(state) == voice.ref # "none" /\ voice[voice.ref] = state

C20_ContinuousListening ==
    (voice.isListening /\ CurrentIs("ended")) ~> (~voice.isListening \/ CurrentIs("live"))

(***************************************************************************)
(* C21.  createSoundClip returns a new clip with isDefault true; the pool  *)
(* afterwards is the previous pool with the new id appended when           *)
(* defaultResponseEnabled is true and the previous pool when it is false;  *)
(* the triggers, every other clip and the rest of the settings are         *)
(* unchanged.                                                              *)
(***************************************************************************)
C21_CreateClipFrame ==
    [][last'.op = "createSoundClip" =>
         LET id == last'.ret IN
         /\ id \notin DOMAIN soundClips
         /\ DOMAIN soundClips' = DOMAIN soundClips \cup {id}
         /\ soundClips'[id].isDefault
         /\ settings'.defaultResponseSoundClipIds =
               IF settings.defaultResponseEnabled THEN Append(Pool, id) ELSE Pool
         /\ triggerWords' = triggerWords
         /\ \A c \in DOMAIN soundClips : soundClips'[c] = soundClips[c]
         /\ settings'.defaultResponseIndex = settings.defaultResponseIndex
         /\ settings'.defaultResponseEnabled = settings.defaultResponseEnabled]_vars

\* a clip created with default responses switched off, next to a trigger and a clip
\* that holds the pool
C21_Witness ==
    /\ last.op = "createSoundClip"
    /\ ~settings.defaultResponseEnabled
    /\ soundClips[last.ret].isDefault
    /\ ~Includes(Pool, last.ret)
    /\ Pool # <<>>
    /\ triggerWords # EmptyMap

\* how often x occurs in seq
Count(seq, x) == Len(SelectSeq(seq, LAMBDA y : y = x))

\* the list the trigger of the last call had before the call and has after it
ListBefore == IF last'.op = "createTriggerWord" THEN <<>>
              ELSE triggerWords[last'.arg].soundClipIds
ListAfter == IF last'.op = "deleteTriggerWord" THEN <<>>
             ELSE triggerWords'[last'.arg].soundClipIds

(***************************************************************************)
(* C22.  When createTriggerWord or updateTriggerWord gives a trigger the   *)
(* id of a live clip that its previous list (empty for a creation) did not *)
(* hold, the clip's isDefault is false afterwards and the pool holds no    *)
(* occurrence of the id; a live clip whose id is in the previous and the   *)
(* new list keeps its isDefault and its occurrences in the pool.           *)
(***************************************************************************)
C22_AssignedLeavesPool ==
    [][last'.op \in {"createTriggerWord", "updateTriggerWord"} =>
         \A c \in DOMAIN soundClips :
            /\ (Includes(ListAfter, c) /\ ~Includes(ListBefore, c)) =>
                  /\ ~soundClips'[c].isDefault
                  /\ Count(settings'.defaultResponseSoundClipIds, c) = 0
            /\ (Includes(ListAfter, c) /\ Includes(ListBefore, c)) =>
                  /\ soundClips'[c].isDefault = soundClips[c].isDefault
                  /\ Count(settings'.defaultResponseSoundClipIds, c) = Count(Pool, c)]_vars

\* an update that left a trigger with two live clips, one out of the pool and
\* non-default, the other in the pool twice
C22_Witness ==
    /\ last.op = "updateTriggerWord"
    /\ \E c, d \in DOMAIN soundClips :
          /\ Range(triggerWords[last.arg].soundClipIds) = {c, d}
          /\ ~soundClips[c].isDefault /\ Count(Pool, c) = 0
          /\ Count(Pool, d) = 2

(***************************************************************************)
(* C23.  When updateTriggerWord drops the id of a live clip from a         *)
(* trigger's list, or deleteTriggerWord removes a trigger that listed it:  *)
(* if no other live trigger lists the id, the clip's isDefault is true     *)
(* afterwards and the pool holds the id, once if it did not hold it before *)
(* and as often as before otherwise; if another live trigger lists it, the *)
(* clip's isDefault and the id's occurrences in the pool are unchanged.    *)
(***************************************************************************)
C23_ReleasedReturnsToPool ==
    [][last'.op \in {"updateTriggerWord", "deleteTriggerWord"} =>
         \A c \in DOMAIN soundClips :
            (Includes(ListBefore, c) /\ ~Includes(ListAfter, c)) =>
               IF \E u \in DOMAIN triggerWords' \ {last'.arg} :
                     Includes(triggerWords'[u].soundClipIds, c)
               THEN /\ soundClips'[c].isDefault = soundClips[c].isDefault
                    /\ Count(settings'.defaultResponseSoundClipIds, c) = Count(Pool, c)
               ELSE /\ soundClips'[c].isDefault
                    /\ Count(settings'.defaultResponseSoundClipIds, c) =
                          IF Count(Pool, c) = 0 THEN 1 ELSE Count(Pool, c)]_vars

\* a trigger was deleted; one of two non-default clips went back to the pool, the
\* other is still listed by the remaining trigger and stayed out of it
C23_Witness ==
    /\ last.op = "deleteTriggerWord"
    /\ \E c, d \in DOMAIN soundClips, u \in DOMAIN triggerWords :
          /\ c # d
          /\ soundClips[c].isDefault /\ Count(Pool, c) = 1 /\ ~Referenced(c)
          /\ ~soundClips[d].isDefault /\ Count(Pool, d) = 0
          /\ Includes(triggerWords[u].soundClipIds, d)

(***************************************************************************)
(* C26.  updateTriggerWord with no soundClipIds in the update (a change of *)
(* enabled, phrase or caseSensitive) leaves every clip, the settings with  *)
(* the pool, and the trigger's soundClipIds and currentIndex as they were; *)
(* the trigger takes the enabled value of the update.                      *)
(***************************************************************************)
C26_UpdateWithoutListFrame ==
    [][\A id \in TriggerIds, updates \in CrudTriggerUpdates :
          (updates.soundClipIds = None /\ updateTriggerWord(id, updates)) =>
             /\ soundClips' = soundClips
             /\ settings' = settings
             /\ triggerWords'[id].soundClipIds = triggerWords[id].soundClipIds
             /\ triggerWords'[id].currentIndex = triggerWords[id].currentIndex
             /\ triggerWords'[id].enabled = OrElse(updates.enabled, triggerWords[id].enabled)
             /\ \A t \in DOMAIN triggerWords \ {id} : triggerWords'[t] = triggerWords[t]]_vars

\* a trigger that an update left disabled with its cursor advanced, listing a live
\* clip that is non-default and outside the pool
C26_Witness ==
    /\ last.op = "updateTriggerWord"
    /\ ~triggerWords[last.arg].enabled
    /\ triggerWords[last.arg].currentIndex = 1
    /\ \E c \in DOMAIN soundClips :
          /\ Includes(triggerWords[last.arg].soundClipIds, c)
          /\ ~soundClips[c].isDefault
          /\ ~Includes(Pool, c)

(***************************************************************************)
(* C29.  When createTriggerWord and updateTriggerWord are only given ids   *)
(* of clips live at the call and the pool is written by the store alone,   *)
(* every id in a live trigger's soundClipIds and every id in the pool is   *)
(* the id of a live clip; after deleteSoundClip(id) the id is in no        *)
(* trigger and not in the pool.                                            *)
(***************************************************************************)
C29_NoDanglingIds ==
    /\ \A t \in DOMAIN triggerWords :
          Range(triggerWords[t].soundClipIds) \subseteq DOMAIN soundClips
    /\ Range(Pool) \subseteq DOMAIN soundClips
    /\ last.op = "deleteSoundClip" => ~Referenced(last.arg) /\ ~Includes(Pool, last.arg)

\* a clip was deleted that a trigger listed next to another clip; the trigger lives on
\* and the pool holds a clip
C29_Witness ==
    /\ last.op = "deleteSoundClip"
    /\ last.arg < currentSoundClipId
    /\ \E t \in DOMAIN triggerWords : triggerWords[t].soundClipIds # <<>>
    /\ Pool # <<>>

(***************************************************************************)
(* C30.  When createTriggerWord, and updateTriggerWord when it carries     *)
(* soundClipIds, are given a non-empty list, every live trigger has at     *)
(* least one id in soundClipIds after any sequence of store operations.    *)
(***************************************************************************)
C30_NoEmptyTrigger ==
    \A t \in DOMAIN triggerWords : Len(triggerWords[t].soundClipIds) >= 1

\* deleteSoundClip took away the first of two triggers and left the second, which
\* lists one other id
C30_Witness ==
    /\ last.op = "deleteSoundClip"
    /\ currentTriggerWordId = 3
    /\ DOMAIN triggerWords = {2}
    /\ Len(triggerWords[2].soundClipIds) = 1
    /\ ~Includes(triggerWords[2].soundClipIds, last.arg)
    /\ last.arg \in ClipIds

(***************************************************************************)
(* C28.  Every name in a trigger's soundClipNames and in                   *)
(* settings.defaultResponseSoundClipNames of the document exportProfile    *)
(* returns is the name of an entry of that document's soundClips, also     *)
(* when a clip was skipped because its audio file cannot be read.          *)
(***************************************************************************)
C28_SelfContained ==
    last.op = "exportProfile" =>
        LET names == Range(ClipNamesOf(client.d1)) IN
        /\ \A i \in DOMAIN client.d1.triggerWords :
              Range(client.d1.triggerWords[i].soundClipNames) \subseteq names
        /\ Range(DefaultNamesOf(client.d1)) \subseteq names

(***************************************************************************)
(* C25.  saveProfileToServer of a document within the size cap, on a name  *)
(* whose sanitized key does not hold a document with stored readOnly true, *)
(* succeeds and writes the document with readOnly and savedAt added; this  *)
(* includes a key whose file cannot be parsed.  Stated as written.         *)
(***************************************************************************)
C25_SaveUnlessReadOnly ==
    [][(SaveCalled /\ last'.arg.bytes <= 10485760 /\ ~HeldReadOnly(SaveKey)) =>
          /\ last'.ret.error = "none"
          /\ SaveKey \in DOMAIN archive'
          /\ archive'[SaveKey].json
          /\ IsSome(archive'[SaveKey].readOnly)
          /\ IsSome(archive'[SaveKey].savedAt)]_vars

(***************************************************************************)
(* C27.  A file that holds a document with stored readOnly true is still   *)
(* there with the same content after any save, load or delete route call   *)
(* under any name.                                                         *)
(***************************************************************************)
C27_ReadOnlyPermanent ==
    [][\A key \in DOMAIN archive :
          HeldReadOnly(key) => key \in DOMAIN archive' /\ archive'[key] = archive[key]]_vars

\* a delete refused for a read-only document that was addressed by a different
\* spelling of its name
C27_Witness ==
    /\ last.op = "deleteFromServer"
    /\ last.ret.error = "readonly"
    /\ last.arg # Sanitize(last.arg)
    /\ Sanitize(last.arg) \in DOMAIN archive
    /\ archive[Sanitize(last.arg)].readOnly = Some(TRUE)

(***************************************************************************)
(* C24.  While an importProfile is between its first and its last step no  *)
(* other request executes a store operation, and when it returns the store *)
(* is what importProfile of its document gives in one piece.               *)
(***************************************************************************)
C24_ImportNotInterleaved ==
    [][\A c \in Callers :
          (requests.of[c].op = "importProfile" /\ InFlight(c)) =>
             /\ \A d \in Callers \ {c} : requests'.of[d] = requests.of[d]
             /\ requests'.of[c].pc = "done" =>
                   LET whole == Imported(requests.of[c].arg) IN
                   /\ soundClips' = whole.clips
                   /\ triggerWords' = whole.trigs
                   /\ settings' = whole.settings
                   /\ currentSoundClipId' = whole.nextClip
                   /\ currentTriggerWordId' = whole.nextTrig]_vars

\* an import that has created its clips and not yet its trigger, while the request
\* of the other caller waits in the queue
C24_Witness ==
    \E c, d \in Callers :
       /\ requests.of[c].op = "importProfile" /\ InFlight(c)
       /\ requests.of[c].pos = 1 + Len(requests.of[c].arg.soundClips)
       /\ soundClips # EmptyMap /\ triggerWords = EmptyMap
       /\ d # c /\ requests.of[d].pc = "queued"
       /\ requests.of[d].op \in {"exportProfile", "importProfile"}

====
